---- MODULE Spec2Model ----
(***************************************************************************)
(* Heads-up no-limit hold'em: the host-authoritative betting engine        *)
(* (MultiplayerHost), its hand evaluator, and the host/joiner replication  *)
(* protocol (MultiplayerJoiner).                                           *)
(*                                                                         *)
(* Chip amounts are JavaScript numbers in big blinds.  They are modelled   *)
(* exactly, as integers counting half-hundredths of a big blind (1 bb =    *)
(* 200 units), which is closed under every operation of the engine on the  *)
(* inputs enumerated here: roundToHundredth yields even numbers of units,  *)
(* a split pot halves an even number.  Binary floating-point error is not  *)
(* modelled; the amounts used in counterexamples are dyadic, so the        *)
(* JavaScript arithmetic on them is exact as well.                         *)
(***************************************************************************)
EXTENDS Integers, Sequences, FiniteSets, TLC

\* ------------------------------------------------------------------ constants

\* private readonly BB = 1 (in units)
BB == 200
\* private readonly SB = 0.5 (in units)
SB == 100
\* GAME_CONFIG.STARTING_STACK_BB
STARTING_STACK_BB == 25
\* GAME_CONFIG.BLINDS_INCREASE_EVERY_N_HANDS
BLINDS_INCREASE_EVERY_N_HANDS == 5

\* ------------------------------------------------------------------ bounds

\* startHand is called at most MaxHands times
MaxHands == 2
\* the engine applies at most MaxActions player actions in a match
MaxActions == 4
\* and at most MaxNetActions in a match with a joiner
MaxNetActions == 2
\* and at most MaxLateActions in a match restored from a saved state
MaxLateActions == 2
\* at most MaxInFlight HOST_STATE messages wait in the joiner's subscription
MaxInFlight == 1

Seats == {"top", "bottom"}
\* the seats the page gives the two players
HostSeat == "bottom"
JoinerSeat == "top"
HostId == "host"
JoinerId == "joiner"

Other(seat) == IF seat = "top" THEN "bottom" ELSE "top"

\* Math.min / Math.max
Min(a, b) == IF a < b THEN a ELSE b
Max(a, b) == IF a > b THEN a ELSE b

\* Math.round(n * 100) / 100 of an amount of n units (Math.round rounds a
\* half towards +infinity)
roundToHundredth(n) == 2 * ((n + 1) \div 2)

\* Math.round(stack * 0.75 * 100) / 100 of a stack of n units
ReduceStackUnscaled(n) == n

ReduceStack(n) == 2 * ((3 * n + 4) \div 8)

\* ------------------------------------------------------------------ evaluator

Card(r, s) == [rank |-> r, suit |-> s]

RANK_TO_VALUE(r) ==
  CASE r = "A" -> 14 [] r = "K" -> 13 [] r = "Q" -> 12 [] r = "J" -> 11
    [] r = "T" -> 10 [] r = "9" -> 9 [] r = "8" -> 8 [] r = "7" -> 7
    [] r = "6" -> 6 [] r = "5" -> 5 [] r = "4" -> 4 [] r = "3" -> 3
    [] r = "2" -> 2

SetMax(S) == CHOOSE m \in S : \A x \in S : x <= m

\* the values of S in descending order: .sort((a, b) => b - a)
RECURSIVE SortDesc(_)
SortDesc(S) ==
  IF S = {} THEN <<>> ELSE LET m == SetMax(S) IN <<m>> \o SortDesc(S \ {m})

\* a[i] ?? 0, for the 0-based index i
At0(a, i) == IF i + 1 <= Len(a) THEN a[i + 1] ELSE 0

RECURSIVE CompareFrom(_, _, _)
CompareFrom(a, b, i) ==
  IF i >= Max(Len(a), Len(b)) THEN 0
  ELSE IF At0(a, i) > At0(b, i) THEN 1
  ELSE IF At0(a, i) < At0(b, i) THEN -1
  ELSE CompareFrom(a, b, i + 1)

compareScore(a, b) == CompareFrom(a, b, 0)

\* the loop of getStraightHigh over vals (1-based i), run as in the code
RECURSIVE StraightScan(_, _, _)
StraightScan(vals, i, run) ==
  IF i > Len(vals) - 1 THEN 0
  ELSE IF vals[i] - 1 = vals[i + 1]
       THEN IF run + 1 >= 5
            THEN (IF vals[i - 3] = 1 THEN 5 ELSE vals[i - 3])
            ELSE StraightScan(vals, i + 1, run + 1)
       ELSE StraightScan(vals, i + 1, 1)

\* getStraightHigh without the ace counted low
getStraightHighAceHigh(valuesUniqueDesc) == StraightScan(valuesUniqueDesc, 1, 1)

\* the high card of the best straight in the descending distinct values, 0
\* for the code's null
getStraightHigh(valuesUniqueDesc) ==
  LET vals == IF Len(valuesUniqueDesc) > 0 /\ valuesUniqueDesc[1] = 14
              THEN Append(valuesUniqueDesc, 1) ELSE valuesUniqueDesc
  IN StraightScan(vals, 1, 1)

\* the first n elements of a sequence: .slice(0, n)
Take(s, n) == SubSeq(s, 1, Min(n, Len(s)))

\* evaluate7 with the kicker of two pair taken below every pair
evaluate7KickerBelowPairs(cards) ==
  LET idx == 1..Len(cards)
      val(i) == RANK_TO_VALUE(cards[i].rank)
      valueSet == {val(i) : i \in idx}
      counts(v) == Cardinality({i \in idx : val(i) = v})
      suited(s) == {val(i) : i \in {j \in idx : cards[j].suit = s}}
      suitCount(s) == Cardinality({j \in idx : cards[j].suit = s})
      \* groups sorted by count, then value, both descending
      Before(v, w) == counts(v) > counts(w) \/ (counts(v) = counts(w) /\ v > w)
      First(S) == CHOOSE v \in S : \A w \in S \ {v} : Before(v, w)
      g0 == First(valueSet)
      flushSuits == {s \in {cards[i].suit : i \in idx} : suitCount(s) >= 5}
      hasFlush == flushSuits # {}
      flushValsDesc == IF hasFlush
                       THEN SortDesc(suited(CHOOSE s \in flushSuits : TRUE))
                       ELSE <<>>
      uniqueDesc == SortDesc(valueSet)
      straightHigh == getStraightHigh(uniqueDesc)
      sfHigh == IF hasFlush THEN getStraightHigh(flushValsDesc) ELSE 0
      pairCandidates == {v \in valueSet : v # g0 /\ counts(v) >= 2}
      pairs == SortDesc({v \in valueSet : counts(v) = 2})
      Without(S) == SortDesc(valueSet \ S)
  IN  IF sfHigh # 0 THEN <<8, sfHigh>>
      ELSE IF counts(g0) = 4
        THEN <<7, g0, At0(Without({g0}), 0)>>
      ELSE IF counts(g0) = 3 /\ pairCandidates # {}
        THEN <<6, g0, First(pairCandidates)>>
      ELSE IF hasFlush THEN <<5>> \o Take(flushValsDesc, 5)
      ELSE IF straightHigh # 0 THEN <<4, straightHigh>>
      ELSE IF counts(g0) = 3
        THEN <<3, g0>> \o Take(Without({g0}), 2)
      ELSE IF counts(g0) = 2 /\ Len(pairs) >= 2
        THEN <<2, pairs[1], pairs[2], At0(Without({v \in valueSet : counts(v) = 2}), 0)>>
      ELSE IF counts(g0) = 2
        THEN <<1, g0>> \o Take(Without({g0}), 3)
      ELSE <<0>> \o Take(uniqueDesc, 5)

evaluate7(cards) ==
  LET idx == 1..Len(cards)
      val(i) == RANK_TO_VALUE(cards[i].rank)
      valueSet == {val(i) : i \in idx}
      counts(v) == Cardinality({i \in idx : val(i) = v})
      suited(s) == {val(i) : i \in {j \in idx : cards[j].suit = s}}
      suitCount(s) == Cardinality({j \in idx : cards[j].suit = s})
      \* groups sorted by count, then value, both descending
      Before(v, w) == counts(v) > counts(w) \/ (counts(v) = counts(w) /\ v > w)
      First(S) == CHOOSE v \in S : \A w \in S \ {v} : Before(v, w)
      g0 == First(valueSet)
      flushSuits == {s \in {cards[i].suit : i \in idx} : suitCount(s) >= 5}
      hasFlush == flushSuits # {}
      flushValsDesc == IF hasFlush
                       THEN SortDesc(suited(CHOOSE s \in flushSuits : TRUE))
                       ELSE <<>>
      uniqueDesc == SortDesc(valueSet)
      straightHigh == getStraightHigh(uniqueDesc)
      sfHigh == IF hasFlush THEN getStraightHigh(flushValsDesc) ELSE 0
      pairCandidates == {v \in valueSet : v # g0 /\ counts(v) >= 2}
      pairs == SortDesc({v \in valueSet : counts(v) = 2})
      Without(S) == SortDesc(valueSet \ S)
  IN  IF sfHigh # 0 THEN <<8, sfHigh>>
      ELSE IF counts(g0) = 4
        THEN <<7, g0, At0(Without({g0}), 0)>>
      ELSE IF counts(g0) = 3 /\ pairCandidates # {}
        THEN <<6, g0, First(pairCandidates)>>
      ELSE IF hasFlush THEN <<5>> \o Take(flushValsDesc, 5)
      ELSE IF straightHigh # 0 THEN <<4, straightHigh>>
      ELSE IF counts(g0) = 3
        THEN <<3, g0>> \o Take(Without({g0}), 2)
      ELSE IF counts(g0) = 2 /\ Len(pairs) >= 2
        THEN <<2, pairs[1], pairs[2], At0(Without({pairs[1], pairs[2]}), 0)>>
      ELSE IF counts(g0) = 2
        THEN <<1, g0>> \o Take(Without({g0}), 3)
      ELSE <<0>> \o Take(uniqueDesc, 5)

\* ------------------------------------------------------------------ host state

\* the 9-card sequences dealCards may return here: indices 1-2 top's hole
\* cards, 3-4 bottom's, 5-9 the board
DealTopWins ==
  << Card("A", "s"), Card("A", "h"), Card("K", "s"), Card("K", "h"),
     Card("2", "d"), Card("7", "c"), Card("9", "d"), Card("J", "c"), Card("3", "s") >>
DealBottomWins ==
  << Card("K", "s"), Card("K", "h"), Card("A", "s"), Card("A", "h"),
     Card("2", "d"), Card("7", "c"), Card("9", "d"), Card("J", "c"), Card("3", "s") >>
DealTie ==
  << Card("2", "s"), Card("3", "h"), Card("2", "d"), Card("3", "c"),
     Card("A", "d"), Card("K", "c"), Card("Q", "d"), Card("J", "c"), Card("T", "s") >>

\* dealCards: a shuffle, modelled as a choice among these deals
dealCards == {DealTopWins, DealBottomWins, DealTie}

\* a log text: the words of the entry, the amount it names and the cards it
\* names
Text(kind, amount, cards) == [kind |-> kind, amount |-> amount, cards |-> cards]

getStreetName(street) ==
  IF street = 0 THEN "Preflop"
  ELSE IF street = 3 THEN "Flop"
  ELSE IF street = 4 THEN "Turn"
  ELSE "River"

\* the id of an entry (Date.now() and the sequence number) is left out
logAction(s, seat, text) ==
  [s EXCEPT !.actionLog = Append(@, [sequence |-> s.actionSequence,
                                      street |-> getStreetName(s.street),
                                      seat |-> seat,
                                      text |-> text]),
            !.actionSequence = @ + 1]

DealerSeatOf(dealerOffset) == IF dealerOffset = 0 THEN "top" ELSE "bottom"

PlayingResult == [status |-> "playing", winner |-> "null", reason |-> "null", message |-> ""]

\* cards: << >> is the code's null
createInitialState(initialDealerOffset) ==
  [ game |-> [ stacks |-> [top |-> STARTING_STACK_BB * BB, bottom |-> STARTING_STACK_BB * BB],
               bets |-> [top |-> 0, bottom |-> 0],
               pot |-> 0 ],
    street |-> 0,
    toAct |-> DealerSeatOf(initialDealerOffset),
    cards |-> << >>,
    handId |-> 0,
    dealerOffset |-> initialDealerOffset,
    dealerSeat |-> DealerSeatOf(initialDealerOffset),
    gameSession |-> 0,
    actionLog |-> << >>,
    actionSequence |-> 0,
    handResult |-> PlayingResult,
    gameOver |-> FALSE,
    blindsPosted |-> FALSE,
    lastRaiseSize |-> BB,
    lastAggressor |-> "null",
    actionsThisStreet |-> 0,
    checked |-> [top |-> FALSE, bottom |-> FALSE],
    oppRevealed |-> FALSE,
    youMucked |-> FALSE,
    canShowTop |-> FALSE,
    canShowBottom |-> FALSE,
    topShowed |-> FALSE,
    bottomShowed |-> FALSE,
    handStartStacks |-> [top |-> STARTING_STACK_BB * BB, bottom |-> STARTING_STACK_BB * BB] ]

postBlinds(s) ==
  LET dealerSeat == DealerSeatOf(s.dealerOffset)
      nonDealerSeat == Other(dealerSeat)
      actualSB == Min(SB, s.game.stacks[dealerSeat])
      actualBB == Min(BB, s.game.stacks[nonDealerSeat])
      s1 == [s EXCEPT !.game.bets[dealerSeat] = roundToHundredth(actualSB),
                      !.game.bets[nonDealerSeat] = roundToHundredth(actualBB),
                      !.game.stacks[dealerSeat] = roundToHundredth(@ - actualSB),
                      !.game.stacks[nonDealerSeat] = roundToHundredth(@ - actualBB),
                      !.toAct = dealerSeat]
      s2 == logAction(s1, dealerSeat, Text("Posts SB", actualSB, << >>))
      s3 == logAction(s2, nonDealerSeat, Text("Posts BB", actualBB, << >>))
  IN [s3 EXCEPT !.blindsPosted = TRUE]

\* startHand without the reset of street
startHandStateKeepsStreet(s, deal) ==
  LET hasPlayedAHand == Len(s.actionLog) > 0
      handId == IF s.handId > 0 \/ hasPlayedAHand THEN s.handId + 1 ELSE s.handId
      dealerOffset == IF handId > 0 THEN 1 - s.dealerOffset ELSE s.dealerOffset
      dealerSeat == IF handId > 0 THEN DealerSeatOf(dealerOffset) ELSE s.dealerSeat
      stacks == IF handId > 0 /\ handId % BLINDS_INCREASE_EVERY_N_HANDS = 0
                THEN [top |-> ReduceStack(s.game.stacks.top),
                      bottom |-> ReduceStack(s.game.stacks.bottom)]
                ELSE s.game.stacks
  IN postBlinds([s EXCEPT !.handId = handId,
                          !.dealerOffset = dealerOffset,
                          !.dealerSeat = dealerSeat,
                          !.game.stacks = stacks,
                          !.handStartStacks = stacks,
                          !.cards = deal,
                          !.handResult = PlayingResult,
                          !.actionLog = << >>,
                          !.actionSequence = 0,
                          !.lastAggressor = "null",
                          !.actionsThisStreet = 0,
                          !.checked = [top |-> FALSE, bottom |-> FALSE],
                          !.oppRevealed = FALSE,
                          !.youMucked = FALSE,
                          !.canShowTop = FALSE,
                          !.canShowBottom = FALSE,
                          !.topShowed = FALSE,
                          !.bottomShowed = FALSE,
                          !.lastRaiseSize = BB])

\* startHand without the flip of dealerOffset
startHandStateSameDealer(s, deal) ==
  LET hasPlayedAHand == Len(s.actionLog) > 0
      handId == IF s.handId > 0 \/ hasPlayedAHand THEN s.handId + 1 ELSE s.handId
      dealerOffset == s.dealerOffset
      dealerSeat == IF handId > 0 THEN DealerSeatOf(dealerOffset) ELSE s.dealerSeat
      stacks == IF handId > 0 /\ handId % BLINDS_INCREASE_EVERY_N_HANDS = 0
                THEN [top |-> ReduceStack(s.game.stacks.top),
                      bottom |-> ReduceStack(s.game.stacks.bottom)]
                ELSE s.game.stacks
  IN postBlinds([s EXCEPT !.handId = handId,
                          !.dealerOffset = dealerOffset,
                          !.dealerSeat = dealerSeat,
                          !.game.stacks = stacks,
                          !.handStartStacks = stacks,
                          !.cards = deal,
                          !.handResult = PlayingResult,
                          !.actionLog = << >>,
                          !.actionSequence = 0,
                          !.street = 0,
                          !.lastAggressor = "null",
                          !.actionsThisStreet = 0,
                          !.checked = [top |-> FALSE, bottom |-> FALSE],
                          !.oppRevealed = FALSE,
                          !.youMucked = FALSE,
                          !.canShowTop = FALSE,
                          !.canShowBottom = FALSE,
                          !.topShowed = FALSE,
                          !.bottomShowed = FALSE,
                          !.lastRaiseSize = BB])

\* startHand up to its broadcast, with the cards dealCards returned
startHandState(s, deal) ==
  LET hasPlayedAHand == Len(s.actionLog) > 0
      handId == IF s.handId > 0 \/ hasPlayedAHand THEN s.handId + 1 ELSE s.handId
      dealerOffset == IF handId > 0 THEN 1 - s.dealerOffset ELSE s.dealerOffset
      dealerSeat == IF handId > 0 THEN DealerSeatOf(dealerOffset) ELSE s.dealerSeat
      stacks == IF handId > 0 /\ handId % BLINDS_INCREASE_EVERY_N_HANDS = 0
                THEN [top |-> ReduceStack(s.game.stacks.top),
                      bottom |-> ReduceStack(s.game.stacks.bottom)]
                ELSE s.game.stacks
  IN postBlinds([s EXCEPT !.handId = handId,
                          !.dealerOffset = dealerOffset,
                          !.dealerSeat = dealerSeat,
                          !.game.stacks = stacks,
                          !.handStartStacks = stacks,
                          !.cards = deal,
                          !.handResult = PlayingResult,
                          !.actionLog = << >>,
                          !.actionSequence = 0,
                          !.street = 0,
                          !.lastAggressor = "null",
                          !.actionsThisStreet = 0,
                          !.checked = [top |-> FALSE, bottom |-> FALSE],
                          !.oppRevealed = FALSE,
                          !.youMucked = FALSE,
                          !.canShowTop = FALSE,
                          !.canShowBottom = FALSE,
                          !.topShowed = FALSE,
                          !.bottomShowed = FALSE,
                          !.lastRaiseSize = BB])

SomeoneAllIn(s) == s.game.stacks.top <= 0 \/ s.game.stacks.bottom <= 0

\* the end of handleFold and resolveShowdown: gameOver once a stack is empty
CheckGameOver(s) == IF SomeoneAllIn(s) THEN [s EXCEPT !.gameOver = TRUE] ELSE s

\* handleFold awarding the pot without the bets of the street
handleFoldPotOnly(s, seat) ==
  LET winner == Other(seat)
      s1 == logAction(s, seat, Text("Folds", 0, << >>))
      s2 == [s1 EXCEPT !.handResult = [status |-> "ended", winner |-> winner, reason |-> "fold",
                                       message |-> IF winner = "bottom" THEN "You wins"
                                                   ELSE "Opponent wins"],
                       !.game.stacks[winner] = @ + s.game.pot,
                       !.game.pot = 0,
                       !.game.bets = [top |-> 0, bottom |-> 0]]
      s3 == logAction(s2, winner, Text("Wins", s.game.pot, << >>))
  IN [s3 EXCEPT !.canShowTop = TRUE, !.canShowBottom = TRUE,
                !.topShowed = FALSE, !.bottomShowed = FALSE]

\* handleFold leaving the bets on the table
FoldAwardLeavesBets(s, seat, winner, potSize) ==
  logAction([logAction(s, seat, Text("Folds", 0, << >>))
               EXCEPT !.handResult = [status |-> "ended", winner |-> winner, reason |-> "fold",
                                      message |-> IF winner = "bottom" THEN "You wins"
                                                  ELSE "Opponent wins"],
                      !.game.stacks[winner] = @ + potSize,
                      !.game.pot = 0],
            winner, Text("Wins", potSize, << >>))

\* handleFold: the log entry, the result and the award
FoldAward(s, seat, winner, potSize) ==
  logAction([logAction(s, seat, Text("Folds", 0, << >>))
               EXCEPT !.handResult = [status |-> "ended", winner |-> winner, reason |-> "fold",
                                      message |-> IF winner = "bottom" THEN "You wins"
                                                  ELSE "Opponent wins"],
                      !.game.stacks[winner] = @ + potSize,
                      !.game.pot = 0,
                      !.game.bets = [top |-> 0, bottom |-> 0]],
            winner, Text("Wins", potSize, << >>))

handleFold(s, seat) ==
  CheckGameOver([FoldAward(s, seat, Other(seat),
                           s.game.pot + s.game.bets.top + s.game.bets.bottom)
                   EXCEPT !.canShowTop = TRUE,
                          !.canShowBottom = TRUE,
                          !.topShowed = FALSE,
                          !.bottomShowed = FALSE])

HoleCards(s, seat) ==
  IF seat = "top" THEN Take(s.cards, 2)
  ELSE IF Len(s.cards) >= 4 THEN SubSeq(s.cards, 3, 4)
  ELSE IF Len(s.cards) >= 3 THEN SubSeq(s.cards, 3, 3) ELSE << >>

\* resolveShowdown: the board dealt up to the street
ShowdownBoard(s) ==
  Take(IF Len(s.cards) >= 5 THEN SubSeq(s.cards, 5, Min(9, Len(s.cards))) ELSE << >>, s.street)

\* resolveShowdown awarding the pot to the seat with the lower score
WinnerOfLower(cmp) == IF cmp > 0 THEN "top" ELSE IF cmp < 0 THEN "bottom" ELSE "tie"

\* resolveShowdown: the winner from compareScore(bottomScore, topScore)
WinnerOf(cmp) == IF cmp > 0 THEN "bottom" ELSE IF cmp < 0 THEN "top" ELSE "tie"

ShowdownWinner(s, board) ==
  WinnerOf(compareScore(evaluate7(HoleCards(s, "bottom") \o board),
                        evaluate7(HoleCards(s, "top") \o board)))

\* resolveShowdown with the out-of-position seat always first to show
FirstToShowOutOfPosition(s) == Other(DealerSeatOf(s.dealerOffset))

\* resolveShowdown: who shows first
FirstToShow(s) ==
  IF s.checked.top /\ s.checked.bottom /\ s.lastAggressor = "null"
  THEN Other(DealerSeatOf(s.dealerOffset))
  ELSE IF s.lastAggressor # "null" THEN s.lastAggressor
  ELSE Other(DealerSeatOf(s.dealerOffset))

\* resolveShowdown: the log entry of a seat that shows
LogShows(s, seat) ==
  IF Len(HoleCards(s, seat)) = 2 THEN logAction(s, seat, Text("Shows", 0, HoleCards(s, seat)))
  ELSE s

\* resolveShowdown: the result, the show order and its log entries
ShowdownResult(s, winner, firstToShow, secondShows) ==
  LET secondToShow == Other(firstToShow)
      topShows == firstToShow = "top" \/ (secondToShow = "top" /\ secondShows)
      bottomShows == firstToShow = "bottom" \/ (secondToShow = "bottom" /\ secondShows)
      s1 == [s EXCEPT !.handResult = [status |-> "ended", winner |-> winner, reason |-> "showdown",
                                      message |-> IF winner = "bottom" THEN "You win"
                                                  ELSE IF winner = "top" THEN "Opponent wins"
                                                  ELSE "Tie"],
                      !.oppRevealed = topShows,
                      !.youMucked = ~bottomShows,
                      !.canShowTop = IF winner = "tie" THEN FALSE
                                     ELSE (winner # "top" /\ ~topShows),
                      !.canShowBottom = IF winner = "tie" THEN FALSE
                                        ELSE (winner # "bottom" /\ ~bottomShows),
                      !.topShowed = FALSE,
                      !.bottomShowed = FALSE]
  IN IF secondShows THEN LogShows(LogShows(s1, firstToShow), secondToShow)
     ELSE logAction(LogShows(s1, firstToShow), secondToShow, Text("Mucked", 0, << >>))

\* resolveShowdown: the award. potSize / 2: potSize is a sum of bets, each a
\* whole number of hundredths, so an even number of units
ShowdownAward(s, winner, potSize) ==
  IF winner = "tie"
  THEN logAction(
         logAction([s EXCEPT !.game.stacks.top = @ + (potSize \div 2),
                             !.game.stacks.bottom = @ + (potSize \div 2),
                             !.game.pot = 0,
                             !.game.bets = [top |-> 0, bottom |-> 0]],
                   "top", Text("Split pot (Showdown)", potSize \div 2, << >>)),
         "bottom", Text("Split pot (Showdown)", potSize \div 2, << >>))
  ELSE logAction([s EXCEPT !.game.stacks[winner] = @ + potSize,
                           !.game.pot = 0,
                           !.game.bets = [top |-> 0, bottom |-> 0]],
                 winner, Text("Wins (Showdown)", potSize, << >>))

\* resolveShowdown once the winner is known
ShowdownOf(s, winner, firstToShow) ==
  CheckGameOver(
    ShowdownAward(
      ShowdownResult(s, winner, firstToShow,
                     SomeoneAllIn(s) \/ winner = "tie" \/ winner = Other(firstToShow)),
      winner, s.game.pot + s.game.bets.top + s.game.bets.bottom))

resolveShowdown(s) == ShowdownOf(s, ShowdownWinner(s, ShowdownBoard(s)), FirstToShow(s))

NextStreet(street) == IF street = 0 THEN 3 ELSE IF street = 3 THEN 4 ELSE 5

\* advanceStreet with the dealer first to act on the new street
StreetAfterDealerFirst(s) ==
  IF s.street \notin {0, 3, 4} THEN resolveShowdown(s)
  ELSE IF SomeoneAllIn(s) /\ NextStreet(s.street) < 5
    THEN resolveShowdown([s EXCEPT !.street = 5])
  ELSE [s EXCEPT !.street = NextStreet(s.street),
                 !.checked = [top |-> FALSE, bottom |-> FALSE],
                 !.lastAggressor = "null",
                 !.actionsThisStreet = 0,
                 !.lastRaiseSize = BB,
                 !.toAct = DealerSeatOf(s.dealerOffset)]

\* advanceStreet once the bets are in the pot
StreetAfter(s) ==
  IF s.street \notin {0, 3, 4} THEN resolveShowdown(s)
  ELSE IF SomeoneAllIn(s) /\ NextStreet(s.street) < 5
    THEN resolveShowdown([s EXCEPT !.street = 5])
  ELSE [s EXCEPT !.street = NextStreet(s.street),
                 !.checked = [top |-> FALSE, bottom |-> FALSE],
                 !.lastAggressor = "null",
                 !.actionsThisStreet = 0,
                 !.lastRaiseSize = BB,
                 !.toAct = Other(DealerSeatOf(s.dealerOffset))]

advanceStreet(s) ==
  StreetAfter([s EXCEPT !.game.pot = @ + s.game.bets.top + s.game.bets.bottom,
                        !.game.bets = [top |-> 0, bottom |-> 0]])

\* handleCheck once the check is logged and counted
CheckClosesStreet(s, seat) ==
  IF (s.checked.top /\ s.checked.bottom)
     \/ (s.game.bets.top = s.game.bets.bottom /\ s.actionsThisStreet >= 2)
  THEN advanceStreet(s)
  ELSE [s EXCEPT !.toAct = Other(seat)]

handleCheck(s, seat) ==
  CheckClosesStreet([logAction(s, seat, Text("Checks", 0, << >>))
                       EXCEPT !.checked[seat] = TRUE, !.actionsThisStreet = @ + 1],
                    seat)

\* handleCall: the caller pays actualCall
CallPaid(s, seat, actualCall) ==
  [s EXCEPT !.game.bets[seat] = roundToHundredth(@ + actualCall),
            !.game.stacks[seat] = roundToHundredth(@ - actualCall)]

\* handleCall: the part of the other seat's bet the call does not cover goes
\* back to it
CallRefunded(s, otherSeat, refund) ==
  [s EXCEPT !.game.bets[otherSeat] = roundToHundredth(@ - refund),
            !.game.stacks[otherSeat] = roundToHundredth(@ + refund)]

CallSettled(s, seat, toCall, actualCall) ==
  IF actualCall < toCall
  THEN CallRefunded(CallPaid(s, seat, actualCall), Other(seat),
                    roundToHundredth(CallPaid(s, seat, actualCall).game.bets[Other(seat)]
                                     - CallPaid(s, seat, actualCall).game.bets[seat]))
  ELSE CallPaid(s, seat, actualCall)

\* handleCall: the log entry, the count and the reveal when a stack is empty
CallLogged(s, seat, actualCall) ==
  [logAction(s, seat, Text("Calls", actualCall, << >>))
     EXCEPT !.actionsThisStreet = @ + 1,
            !.oppRevealed = IF s.game.stacks.top <= 0 \/ s.game.stacks.bottom <= 0
                            THEN TRUE ELSE @]

\* handleCall without the big blind's option: every call closes the street
CallAlwaysClosesStreet(s, seat) == advanceStreet(s)

\* handleCall: the dealer's limp passes the turn, any other call closes the
\* street
CallClosesStreet(s, seat) ==
  IF s.street = 0 /\ seat = DealerSeatOf(s.dealerOffset) /\ s.lastAggressor = "null"
  THEN [s EXCEPT !.toAct = Other(seat)]
  ELSE advanceStreet(s)

CallOf(s, seat, toCall, actualCall) ==
  CallClosesStreet(CallLogged(CallSettled(s, seat, toCall, actualCall), seat, actualCall), seat)

handleCall(s, seat) ==
  CallOf(s, seat,
         roundToHundredth(s.game.bets[Other(seat)] - s.game.bets[seat]),
         roundToHundredth(Min(roundToHundredth(s.game.bets[Other(seat)] - s.game.bets[seat]),
                              s.game.stacks[seat])))

handleBetRaise(s, seat, amount) ==
  LET otherSeat == Other(seat)
      currentBet == s.game.bets[seat]
      otherCurrentBet == s.game.bets[otherSeat]
      maxPossible == currentBet + s.game.stacks[seat]
      cappedAmount == Min(amount, maxPossible)
      betAmount == cappedAmount - currentBet
      isFacing == otherCurrentBet > currentBet
  IN [logAction([s EXCEPT !.game.bets[seat] = roundToHundredth(cappedAmount),
                          !.game.stacks[seat] = roundToHundredth(@ - betAmount)],
                seat, Text(IF isFacing THEN "Raises to" ELSE "Bets", amount, << >>))
        EXCEPT !.lastAggressor = seat,
               !.lastRaiseSize = IF isFacing THEN cappedAmount - otherCurrentBet
                                 ELSE cappedAmount,
               !.actionsThisStreet = @ + 1,
               !.checked = [top |-> FALSE, bottom |-> FALSE],
               !.toAct = otherSeat]

\* handleShowHand without the test of the showed flag
handleShowHandAgain(s, seat) ==
  IF seat = "top" /\ ~s.canShowTop THEN s
  ELSE IF seat = "bottom" /\ ~s.canShowBottom THEN s
  ELSE LogShows(IF seat = "top" THEN [s EXCEPT !.topShowed = TRUE]
                ELSE [s EXCEPT !.bottomShowed = TRUE], seat)

handleShowHand(s, seat) ==
  IF seat = "top" /\ ~s.canShowTop THEN s
  ELSE IF seat = "bottom" /\ ~s.canShowBottom THEN s
  ELSE IF seat = "top" /\ s.topShowed THEN s
  ELSE IF seat = "bottom" /\ s.bottomShowed THEN s
  ELSE LogShows(IF seat = "top" THEN [s EXCEPT !.topShowed = TRUE]
                ELSE [s EXCEPT !.bottomShowed = TRUE], seat)

\* ------------------------------------------------------------------ messages

\* GameAction: to is 0 for the types that carry no amount
Fold == [type |-> "FOLD", to |-> 0]
Check == [type |-> "CHECK", to |-> 0]
Call == [type |-> "CALL", to |-> 0]
BetRaiseTo(to) == [type |-> "BET_RAISE_TO", to |-> to]

NoAction == [type |-> "none", to |-> 0]

\* a payload of the "mp" broadcast event; the fields an event does not carry
\* hold "none", NoAction and << >>
Payload(event, kind, sender, seat, action, state) ==
  [event |-> event, kind |-> kind, sender |-> sender, seat |-> seat,
   action |-> action, state |-> state]

\* the payload broadcastFullState sends: the complete state
broadcastFullState(s) == Payload("HOST_STATE", "none", HostId, "none", NoAction, <<s>>)

\* what a run of a host operation leaves: the state and the payloads it
\* passed to channel.send, in order
Outcome(s, sent) == [state |-> s, sent |-> sent]

\* processAction's validation without the test of handResult.status
AcceptsAnyStatus(s, seat) == s.toAct = seat

\* the two validations that open processAction
Accepts(s, seat) == s.toAct = seat /\ s.handResult.status = "playing"

applyAction(s, seat, action) ==
  CASE action.type = "FOLD" -> handleFold(s, seat)
    [] action.type = "CHECK" -> handleCheck(s, seat)
    [] action.type = "CALL" -> handleCall(s, seat)
    [] action.type = "BET_RAISE_TO" -> handleBetRaise(s, seat, action.to)
    [] OTHER -> s

\* an operation that ends with broadcastFullState
Published(s) == Outcome(s, <<broadcastFullState(s)>>)

\* processAction publishing the state it found, before applying the action
processActionEarlyBroadcast(s, seat, action) ==
  IF ~Accepts(s, seat) THEN Outcome(s, << >>)
  ELSE Outcome(applyAction(s, seat, action), <<broadcastFullState(s)>>)

\* processAction without the test of handResult.status
processActionAnyStatus(s, seat, action) ==
  IF s.toAct # seat THEN Outcome(s, << >>)
  ELSE Published(applyAction(s, seat, action))

processAction(s, seat, action) ==
  IF ~Accepts(s, seat) THEN Outcome(s, << >>)
  ELSE Published(applyAction(s, seat, action))

startHand(s, deal) == Published(startHandState(s, deal))

\* showHand without its broadcast
showHandSilent(s, seat) == Outcome(handleShowHand(s, seat), << >>)

showHand(s, seat) == Published(handleShowHand(s, seat))

\* the host's callback without the test of payload.sender
onHostBroadcastUnfiltered(s, payload) ==
  IF payload.event = "ACTION" /\ payload.seat # "none" /\ payload.action # NoAction
    THEN processAction(s, payload.seat, payload.action)
  ELSE IF payload.event = "SYNC" /\ payload.kind = "REQUEST_SNAPSHOT"
    THEN Outcome(s, <<broadcastFullState(s)>>)
  ELSE IF payload.event = "SHOW_HAND" /\ payload.seat # "none"
    THEN showHand(s, payload.seat)
  ELSE Outcome(s, << >>)

\* the callback setupActionListener registers, run on one payload
\* the listener without its SYNC branch
onHostBroadcastNoSnapshot(s, payload) ==
  IF payload.sender = HostId THEN Outcome(s, << >>)
  ELSE IF payload.event = "ACTION" /\ payload.seat # "none" /\ payload.action # NoAction
    THEN processAction(s, payload.seat, payload.action)
  ELSE IF payload.event = "SHOW_HAND" /\ payload.seat # "none"
    THEN showHand(s, payload.seat)
  ELSE Outcome(s, << >>)

onHostBroadcast(s, payload) ==
  IF payload.sender = HostId THEN Outcome(s, << >>)
  ELSE IF payload.event = "ACTION" /\ payload.seat # "none" /\ payload.action # NoAction
    THEN processAction(s, payload.seat, payload.action)
  ELSE IF payload.event = "SYNC" /\ payload.kind = "REQUEST_SNAPSHOT"
    THEN Outcome(s, <<broadcastFullState(s)>>)
  ELSE IF payload.event = "SHOW_HAND" /\ payload.seat # "none"
    THEN showHand(s, payload.seat)
  ELSE Outcome(s, << >>)

\* ------------------------------------------------------------------ joiner

\* the payloads MultiplayerJoiner publishes
ActionPayload(sender, seat, action) == Payload("ACTION", "none", sender, seat, action, << >>)
ShowHandPayload(sender, seat) == Payload("SHOW_HAND", "none", sender, seat, NoAction, << >>)
RequestSnapshotPayload(sender) ==
  Payload("SYNC", "REQUEST_SNAPSHOT", sender, "none", NoAction, << >>)
PlayerQuitPayload(sender) == Payload("PLAYER_QUIT", "none", sender, "none", NoAction, << >>)

\* the joiner's callback keeping the action log of a mirror it holds
onJoinerBroadcastKeepsLog(j, payload) ==
  IF payload.sender = JoinerId THEN j
  ELSE IF payload.event = "HOST_STATE" /\ payload.state # << >>
    THEN (IF j = << >> THEN payload.state
          ELSE <<[payload.state[1] EXCEPT !.actionLog = j[1].actionLog]>>)
  ELSE j

\* the joiner's callback adding the snapshot's action log to the one it holds
onJoinerBroadcastAppendsLog(j, payload) ==
  IF payload.sender = JoinerId THEN j
  ELSE IF payload.event = "HOST_STATE" /\ payload.state # << >>
    THEN (IF j = << >> THEN payload.state
          ELSE <<[payload.state[1] EXCEPT !.actionLog = j[1].actionLog \o @]>>)
  ELSE j

\* the callback setupStateListener registers, run on one payload; the mirror
\* j is << >> for the code's null and <<state>> otherwise
onJoinerBroadcast(j, payload) ==
  IF payload.sender = JoinerId THEN j
  ELSE IF payload.event = "HOST_STATE" /\ payload.state # << >> THEN payload.state
  ELSE j

\* joiner.sendAction, sendShowHand and the body of the requestState timer:
\* the mirror they leave and the payload they publish
\* sendAction applying the action to the mirror before the host answers
sendActionOptimistic(j, seat, action) ==
  Outcome(IF j = << >> THEN j ELSE <<applyAction(j[1], seat, action)>>,
          <<ActionPayload(JoinerId, seat, action)>>)

sendAction(j, seat, action) == Outcome(j, <<ActionPayload(JoinerId, seat, action)>>)
sendShowHand(j, seat) == Outcome(j, <<ShowHandPayload(JoinerId, seat)>>)
requestState(j) == Outcome(j, <<RequestSnapshotPayload(JoinerId)>>)

\* ------------------------------------------------------------------ state

VARIABLES
  hostState,     \* MultiplayerHost.state
  joinerPc,      \* "absent": no MultiplayerJoiner yet; "constructed": listening,
                 \* the requestState timer pending; "ready": the request sent
  joinerState,   \* MultiplayerJoiner.state
  toJoiner,      \* the host's payloads the channel has yet to hand to the joiner
  missed,        \* the channel lost the payload it last took from toJoiner
  acted,         \* the player actions the engine has applied in the match
  page,          \* the host's page: its next-hand timer, whether the opponent
                 \* quit and whether the player left the table
  solo,          \* the page's single-player game, << >> when there is none
  scored,        \* the hand the evaluator is given, card by card, and its scores
  last           \* the operation that ran last: its inputs, the states before
                 \* it and the payloads it published

vars == <<hostState, joinerPc, joinerState, toJoiner, missed, acted, page, solo, scored, last>>

\* nextHandTimerRef empty, opponentQuit false, the table not left
NoPage == [timers |-> 0, opponentQuit |-> FALSE, left |-> FALSE]

NoPayload == Payload("none", "none", "none", "none", NoAction, << >>)

\* last.action is the action the engine applied, NoAction when it applied none
Ran(op, seat, action, payload, sent) ==
  [op |-> op, seat |-> seat, action |-> action, payload |-> payload,
   pre |-> hostState, preJoiner |-> joinerState, preMissed |-> missed, sent |-> sent]

Init ==
  /\ \E initialDealerOffset \in {0, 1} : hostState = createInitialState(initialDealerOffset)
  /\ joinerPc = "absent"
  /\ joinerState = << >>
  /\ toJoiner = << >>
  /\ missed = FALSE
  /\ acted = 0
  /\ page = NoPage
  /\ solo = << >>
  /\ scored = << >>
  /\ last = [op |-> "constructor", seat |-> "none", action |-> NoAction, payload |-> NoPayload,
             pre |-> hostState, preJoiner |-> << >>, preMissed |-> FALSE, sent |-> << >>]

\* BET_RAISE_TO targets: 2.125 bb and 30 bb
RaiseTargets == {425, 6000}

GameActions == {Fold, Check, Call} \cup {BetRaiseTo(to) : to \in RaiseTargets}

\* the actions of the runs with a joiner
NetActions == {Fold, Call}

HandsStarted(s) == IF s.blindsPosted THEN s.handId + 1 ELSE 0

\* a host operation ends: the state is replaced and what it published
\* reaches the joiner's subscription, if there is one
HostRan(out, op, seat, action, payload) ==
  /\ hostState' = out.state
  /\ toJoiner' = IF joinerPc = "absent" THEN toJoiner ELSE toJoiner \o out.sent
  /\ Len(toJoiner') <= MaxInFlight \/ toJoiner' = toJoiner
  /\ last' = Ran(op, seat, action, payload, out.sent)
  /\ UNCHANGED <<joinerPc, joinerState, missed, page, solo, scored>>

\* the engine applied a player action in the step
Applied(s, seat) == IF Accepts(s, seat) THEN 1 ELSE 0

\* host.startHand(): on entering the game, and after a hand has ended; the
\* first MaxHands hands of a blind level are started
StartHandOf(deals) ==
  /\ ~hostState.blindsPosted \/ hostState.handResult.status = "ended"
  /\ HandsStarted(hostState) % BLINDS_INCREASE_EVERY_N_HANDS < MaxHands
  /\ \E deal \in deals :
       HostRan(startHand(hostState, deal), "startHand", "none", NoAction, NoPayload)
  /\ UNCHANGED acted

\* host.processAction(seat, action), called on the host
ProcessActionOf(seats, actions, budget) ==
  /\ hostState.blindsPosted
  /\ \E seat \in seats, action \in actions :
       /\ acted + Applied(hostState, seat) <= budget
       /\ acted' = acted + Applied(hostState, seat)
       /\ HostRan(processAction(hostState, seat, action), "processAction", seat,
                  IF Accepts(hostState, seat) THEN action ELSE NoAction, NoPayload)

\* host.showHand(seat), called on the host
ShowHandOf(seats) ==
  /\ hostState.blindsPosted
  /\ \E seat \in seats :
       HostRan(showHand(hostState, seat), "showHand", seat, NoAction, NoPayload)
  /\ UNCHANGED acted

\* the payloads the channel may hand to the host: the joiner's, with any seat
\* and action, and the echo of what the host published itself
HostInbound(actions) ==
  {ActionPayload(JoinerId, seat, action) : seat \in Seats, action \in actions}
  \cup {ShowHandPayload(JoinerId, seat) : seat \in Seats}
  \cup {RequestSnapshotPayload(JoinerId), PlayerQuitPayload(JoinerId)}
  \cup {ActionPayload(HostId, seat, Fold) : seat \in Seats}
  \cup {broadcastFullState(hostState)}

\* the channel hands a payload to the host's listener
OnHostBroadcastOf(actions, budget) ==
  /\ hostState.blindsPosted
  /\ \E payload \in HostInbound(actions) :
       LET applies == payload.event = "ACTION" /\ payload.sender # HostId
                      /\ Accepts(hostState, payload.seat)
           applied == IF applies THEN 1 ELSE 0
       IN /\ acted + applied <= budget
          /\ acted' = acted + applied
          /\ HostRan(onHostBroadcast(hostState, payload), "onHostBroadcast", payload.seat,
                     IF applies THEN payload.action ELSE NoAction,
                     IF applies THEN payload
                     ELSE [payload EXCEPT !.action = NoAction, !.state = << >>])

\* the actions the joiner sends
JoinerIntents == {Call}

\* a joiner operation ends
JoinerRan(mirror, ran) ==
  /\ joinerState' = mirror
  /\ last' = ran
  /\ UNCHANGED <<hostState, acted, page, solo, scored>>

\* new MultiplayerJoiner(...): the listener is registered and the
\* requestState timer armed
JoinerConstruct ==
  /\ hostState.blindsPosted
  /\ joinerPc = "absent"
  /\ joinerPc' = "constructed"
  /\ JoinerRan(joinerState, Ran("joinerConstructor", "none", NoAction, NoPayload, << >>))
  /\ UNCHANGED <<toJoiner, missed>>

\* the requestState timer fires
JoinerRequestState ==
  /\ joinerPc = "constructed"
  /\ joinerPc' = "ready"
  /\ LET out == requestState(joinerState)
     IN JoinerRan(out.state, Ran("requestState", "none", NoAction, NoPayload, out.sent))
  /\ UNCHANGED <<toJoiner, missed>>

\* joiner.sendAction(seat, action)
JoinerSendAction ==
  /\ joinerPc # "absent"
  /\ \E seat \in {JoinerSeat}, action \in JoinerIntents :
       LET out == sendAction(joinerState, seat, action)
       IN JoinerRan(out.state, Ran("sendAction", seat, action, NoPayload, out.sent))
  /\ UNCHANGED <<joinerPc, toJoiner, missed>>

\* joiner.sendShowHand(seat)
JoinerSendShowHand ==
  /\ joinerPc # "absent"
  /\ \E seat \in {JoinerSeat} :
       LET out == sendShowHand(joinerState, seat)
       IN JoinerRan(out.state, Ran("sendShowHand", seat, NoAction, NoPayload, out.sent))
  /\ UNCHANGED <<joinerPc, toJoiner, missed>>

\* the channel hands the joiner's listener the host's oldest waiting payload
JoinerOnHostPayload ==
  /\ toJoiner # << >>
  /\ JoinerRan(onJoinerBroadcast(joinerState, Head(toJoiner)),
               Ran("onJoinerBroadcast", "none", NoAction, Head(toJoiner), << >>))
  /\ toJoiner' = Tail(toJoiner)
  /\ missed' = FALSE
  /\ UNCHANGED joinerPc

\* at-least-once delivery: the channel hands the joiner's listener once more
\* the payload it handed it last
JoinerOnDuplicate ==
  /\ last.op = "onJoinerBroadcast"
  /\ last.payload.sender = HostId
  /\ JoinerRan(onJoinerBroadcast(joinerState, last.payload),
               Ran("onJoinerDuplicate", "none", NoAction, last.payload, << >>))
  /\ UNCHANGED <<joinerPc, toJoiner, missed>>

\* the payloads that reach the joiner's listener under the joiner's own id:
\* the echo of what it published, and a snapshot stamped with its id
JoinerEchoes ==
  {RequestSnapshotPayload(JoinerId), ActionPayload(JoinerId, "top", Call),
   [broadcastFullState(hostState) EXCEPT !.sender = JoinerId]}

\* the channel hands the joiner's listener a payload that carries its own id
JoinerOnEcho ==
  /\ joinerPc # "absent"
  /\ \E payload \in JoinerEchoes :
       JoinerRan(onJoinerBroadcast(joinerState, payload),
                 Ran("onJoinerBroadcast", "none", NoAction, payload, << >>))
  /\ UNCHANGED <<joinerPc, toJoiner, missed>>

\* the channel loses the host's oldest waiting payload
ChannelLoses ==
  /\ toJoiner # << >>
  /\ toJoiner' = Tail(toJoiner)
  /\ missed' = TRUE
  /\ last' = Ran("channelLoses", "none", NoAction, Head(toJoiner), << >>)
  /\ UNCHANGED <<hostState, joinerPc, joinerState, acted, page, solo, scored>>

\* ------------------------------------------------------------------ specifications

HostStartHand == StartHandOf({DealTopWins})
\* the host's page acts and shows for the host's seat
HostProcessAction == ProcessActionOf({HostSeat}, NetActions, MaxNetActions)
HostShowHand == ShowHandOf({HostSeat})
HostOnBroadcast == OnHostBroadcastOf(NetActions, MaxNetActions)

\* the host, the channel and the joiner
Next ==
  \/ HostStartHand
  \/ HostProcessAction
  \/ HostShowHand
  \/ HostOnBroadcast
  \/ JoinerConstruct
  \/ JoinerRequestState
  \/ JoinerSendAction
  \/ JoinerSendShowHand
  \/ JoinerOnHostPayload
  \/ JoinerOnDuplicate
  \/ JoinerOnEcho
  \/ ChannelLoses

Spec == Init /\ [][Next]_vars

EngineStartHand == StartHandOf(dealCards)
EngineProcessAction == ProcessActionOf(Seats, GameActions, MaxActions)
EngineShowHand == ShowHandOf(Seats)

\* the host called on its own: no joiner subscribes
NextHost ==
  \/ EngineStartHand
  \/ EngineProcessAction
  \/ EngineShowHand

SpecHost == Init /\ [][NextHost]_vars

\* the seat to act takes an action
Act(s, action) == processAction(s, s.toAct, action).state

\* a state and the starts of the streets after it, each reached by a call or
\* a check answered by a check
RECURSIVE StreetStarts(_)
StreetStarts(s) ==
  IF s.street = 5 THEN {s}
  ELSE {s} \cup StreetStarts(Act(Act(s, IF s.street = 0 THEN Call ELSE Check), Check))

\* the states a host saves at the start of each street of a first hand
SavedStates ==
  UNION {StreetStarts(startHand(createInitialState(off), deal).state) :
         off \in {0, 1}, deal \in dealCards}

\* a first hand in which the dealer raises to 24 bb, is re-raised and folds:
\* it is left with 1 bb
LosesAllButOneBB(s) == Act(Act(Act(s, BetRaiseTo(24 * BB)), BetRaiseTo(6000)), Fold)

\* the states a host saves at the start of a second hand whose big blind
\* has exactly 1 bb
ShortStackStarts ==
  {startHand(LosesAllButOneBB(startHand(createInitialState(off), deal).state), deal).state :
   off \in {0, 1}, deal \in dealCards}

\* the start of the hand that follows n hands folded by their dealers
RECURSIVE AfterFoldedHands(_, _, _)
AfterFoldedHands(s, deal, n) ==
  IF n = 0 THEN s
  ELSE AfterFoldedHands(startHand(Act(s, Fold), deal).state, deal, n - 1)

\* the states a host saves at the start of the last hand of the first blind
\* level
LastHandOfLevelStarts ==
  {AfterFoldedHands(startHand(createInitialState(off), deal).state, deal,
                    BLINDS_INCREASE_EVERY_N_HANDS - 1) :
   off \in {0, 1}, deal \in dealCards}

\* new MultiplayerHost(..., savedState): the host restored in mid-hand
InitSaved ==
  /\ hostState \in SavedStates \cup ShortStackStarts \cup LastHandOfLevelStarts
  /\ joinerPc = "absent"
  /\ joinerState = << >>
  /\ toJoiner = << >>
  /\ missed = FALSE
  /\ acted = 0
  /\ page = NoPage
  /\ solo = << >>
  /\ scored = << >>
  /\ last = [op |-> "constructor", seat |-> "none", action |-> NoAction, payload |-> NoPayload,
             pre |-> hostState, preJoiner |-> << >>, preMissed |-> FALSE, sent |-> << >>]

\* the actions of a restored host: with a BET_RAISE_TO of 1.5 bb and one of
\* -1 bb as well (action.to is any number the caller or the channel hands in)
LateActions == GameActions \cup {BetRaiseTo(300), BetRaiseTo(-BB)}

LateProcessAction == ProcessActionOf(Seats, LateActions, MaxLateActions)

NextSaved ==
  \/ EngineStartHand
  \/ LateProcessAction
  \/ EngineShowHand

\* the host restored at the start of a street, then run on its own
SpecSaved == InitSaved /\ [][NextSaved]_vars

\* ------------------------------------------------------------------ the host's page

\* the auto-next-hand effect, run after a render in which the hand's status
\* changed: its cleanup clears the timer, its body arms one when the hand
\* has ended and the match is not over
autoNextHandEffect(timers, before, after) ==
  IF after.handResult.status = before.handResult.status THEN timers
  ELSE IF after.handResult.status = "ended" /\ ~after.gameOver THEN 1
  ELSE 0

\* the next-hand timer's callback on the host: startHand when both stacks
\* hold chips
nextHandTimeout(s, deal) ==
  IF s.game.stacks.top > 0 /\ s.game.stacks.bottom > 0
  THEN startHand(s, deal).state ELSE s

\* a handler of the host's page ends: the host's state is rendered and the
\* effects run
PageRan(s, timers, op, seat, action) ==
  /\ hostState' = s
  /\ page' = [page EXCEPT !.timers = autoNextHandEffect(timers, hostState, s)]
  /\ last' = Ran(op, seat, action, NoPayload, << >>)
  /\ UNCHANGED <<joinerPc, joinerState, toJoiner, missed, solo, scored>>

\* a player action reaches the host: the page's own through dispatchAction,
\* the opponent's through the channel while the opponent is there
PageProcessAction ==
  /\ ~page.left
  /\ \E seat \in IF page.opponentQuit THEN {HostSeat} ELSE Seats, action \in GameActions :
       /\ acted + Applied(hostState, seat) <= MaxNetActions
       /\ acted' = acted + Applied(hostState, seat)
       /\ PageRan(processAction(hostState, seat, action).state, page.timers,
                  "processAction", seat,
                  IF Accepts(hostState, seat) THEN action ELSE NoAction)

\* the next-hand timer fires
PageNextHandTimer ==
  /\ page.timers > 0
  /\ HandsStarted(hostState) < MaxHands
  /\ \E deal \in dealCards :
       PageRan(nextHandTimeout(hostState, deal), page.timers - 1,
               "nextHandTimer", "none", NoAction)
  /\ UNCHANGED acted

\* the joiner's PLAYER_QUIT reaches the host: onOpponentQuit sets opponentQuit
PageOpponentQuits ==
  /\ ~page.left /\ ~page.opponentQuit
  /\ page' = [page EXCEPT !.opponentQuit = TRUE]
  /\ last' = Ran("onOpponentQuit", JoinerSeat, NoAction, PlayerQuitPayload(JoinerId), << >>)
  /\ UNCHANGED <<hostState, joinerPc, joinerState, toJoiner, missed, acted, solo, scored>>

\* the player confirms "Title screen": the host is destroyed, clearTimers
PageLeaves ==
  /\ ~page.left
  /\ page' = [page EXCEPT !.left = TRUE, !.timers = 0]
  /\ last' = Ran("titleScreen", HostSeat, NoAction, NoPayload, << >>)
  /\ UNCHANGED <<hostState, joinerPc, joinerState, toJoiner, missed, acted, solo, scored>>

\* the page creates the host and starts the first hand
InitPage ==
  /\ \E initialDealerOffset \in {0, 1}, deal \in dealCards :
       hostState = startHand(createInitialState(initialDealerOffset), deal).state
  /\ joinerPc = "absent"
  /\ joinerState = << >>
  /\ toJoiner = << >>
  /\ missed = FALSE
  /\ acted = 0
  /\ page = NoPage
  /\ solo = << >>
  /\ scored = << >>
  /\ last = [op |-> "constructor", seat |-> "none", action |-> NoAction, payload |-> NoPayload,
             pre |-> hostState, preJoiner |-> << >>, preMissed |-> FALSE, sent |-> << >>]

NextPage ==
  \/ PageProcessAction
  \/ PageNextHandTimer
  \/ PageOpponentQuits
  \/ PageLeaves

\* the host's page of a multiplayer game
SpecPage == InitPage /\ [][NextPage]_vars

\* ------------------------------------------------------------------ the single-player game

NoSeats == [top |-> FALSE, bottom |-> FALSE]
NoBets == [top |-> 0, bottom |-> 0]

\* dealerSeat of the page, from handId and dealerOffset
soloDealerSeat(handId, dealerOffset) ==
  IF (handId + dealerOffset) % 2 = 0 THEN "top" ELSE "bottom"

\* the per-hand effect's setGame: the stacks scaled at a level change, the
\* blinds capped at the stacks
soloPostBlinds(stacks, handId, dealerSeat) ==
  LET scaled == [seat \in Seats |->
                   IF handId # 0 /\ handId % BLINDS_INCREASE_EVERY_N_HANDS = 0
                   THEN ReduceStack(stacks[seat]) ELSE roundToHundredth(stacks[seat])]
      blind == [seat \in Seats |-> Min(IF seat = dealerSeat THEN SB ELSE BB, scaled[seat])]
  IN [pot |-> 0,
      bets |-> [seat \in Seats |-> roundToHundredth(blind[seat])],
      stacks |-> [seat \in Seats |-> roundToHundredth(Max(0, scaled[seat] - blind[seat]))]]

\* the state the page renders once a hand is set up: startNewHand or
\* resetGame, then the per-hand effect
soloHand(g, handId, deal) ==
  [g EXCEPT !.handId = handId,
            !.dealerSeat = soloDealerSeat(handId, g.dealerOffset),
            !.cards = deal,
            !.game = soloPostBlinds(g.game.stacks, handId, soloDealerSeat(handId, g.dealerOffset)),
            !.handResult = [status |-> "playing", winner |-> "null"],
            !.street = 0,
            !.checked = NoSeats,
            !.toAct = soloDealerSeat(handId, g.dealerOffset),
            !.lastAggressor = "null",
            !.lastToActAfterAggro = "null",
            !.sawCallThisStreet = FALSE,
            !.actionsThisStreet = 0,
            !.streetBettor = "null",
            !.lastRaiseSize = BB,
            !.logged = 2]

\* resetGame: fresh stacks, a dealerOffset, hand #1
soloResetGame(dealerOffset, deal) ==
  soloHand([dealerOffset |-> dealerOffset, handId |-> 0, dealerSeat |-> "top", cards |-> deal,
            game |-> [pot |-> 0, bets |-> NoBets,
                      stacks |-> [top |-> STARTING_STACK_BB * BB,
                                  bottom |-> STARTING_STACK_BB * BB]],
            handResult |-> [status |-> "playing", winner |-> "null"],
            street |-> 0, checked |-> NoSeats, toAct |-> "top",
            lastAggressor |-> "null", lastToActAfterAggro |-> "null",
            sawCallThisStreet |-> FALSE, actionsThisStreet |-> 0,
            streetBettor |-> "null", lastRaiseSize |-> BB, logged |-> 0,
            gameOver |-> FALSE, streetTimers |-> << >>, nextHandTimer |-> 0,
            gameOverTimer |-> FALSE],
           0, deal)

\* startNewHand
soloStartNewHand(g, deal) == IF g.gameOver THEN g ELSE soloHand(g, g.handId + 1, deal)

soloEqualBets(g) == roundToHundredth(g.game.bets.top) = roundToHundredth(g.game.bets.bottom)

soloSomeoneAllIn(g) == g.game.stacks.top <= 0 \/ g.game.stacks.bottom <= 0

\* endHand: clearTimers, the pot paid, the hand ended, the game-over
\* sequence scheduled when a stack is empty
soloEndHand(g, winner) ==
  LET fullPot == roundToHundredth(g.game.pot + g.game.bets.top + g.game.bets.bottom)
      half == roundToHundredth(fullPot \div 2)
      nextStacks ==
        IF winner = "tie"
        THEN [top |-> roundToHundredth(g.game.stacks.top + half),
              bottom |-> roundToHundredth(g.game.stacks.bottom + (fullPot - half))]
        ELSE [g.game.stacks EXCEPT ![winner] = roundToHundredth(@ + fullPot)]
  IN [g EXCEPT !.nextHandTimer = 0,
               !.game = [pot |-> 0, bets |-> NoBets, stacks |-> nextStacks],
               !.handResult = [status |-> "ended", winner |-> winner],
               !.gameOverTimer = @ \/ nextStacks.top <= 0 \/ nextStacks.bottom <= 0]

\* resolveShowdown: both hands scored on the full board, the shows and the
\* award logged, endHand
soloResolveShowdown(g) ==
  soloEndHand([g EXCEPT !.logged = @ + 3],
              WinnerOf(compareScore(evaluate7(SubSeq(g.cards, 3, 4) \o SubSeq(g.cards, 5, 9)),
                                    evaluate7(SubSeq(g.cards, 1, 2) \o SubSeq(g.cards, 5, 9)))))

pullBetsIntoPot(g) ==
  [g EXCEPT !.game.pot = roundToHundredth(@ + g.game.bets.top + g.game.bets.bottom),
            !.game.bets = NoBets]

resetStreetRound(g, nextStreet) ==
  [g EXCEPT !.street = nextStreet,
            !.checked = NoSeats,
            !.lastAggressor = "null",
            !.lastToActAfterAggro = "null",
            !.actionsThisStreet = 0,
            !.streetBettor = "null",
            !.sawCallThisStreet = FALSE,
            !.lastRaiseSize = BB,
            !.toAct = IF nextStreet = 0 THEN g.dealerSeat ELSE Other(g.dealerSeat)]

\* settleIfStreetComplete: what it does with the state it was rendered with
\* "none", "reset" (the next street at once), "showdown" or "timer" (the
\* next street or the showdown 50 ms later)
soloClosure(g) ==
  LET bothChecked == g.checked.top /\ g.checked.bottom
      callThenCheck == g.sawCallThisStreet /\ (g.checked.top \/ g.checked.bottom)
      preflopCallThenCheckClosed == g.street = 0 /\ callThenCheck /\ soloEqualBets(g)
      postflopCallThenCheckClosed == g.street # 0 /\ callThenCheck /\ g.actionsThisStreet >= 2
      allInCallClosed == g.sawCallThisStreet /\ soloEqualBets(g) /\ soloSomeoneAllIn(g)
  IN IF g.handResult.status # "playing" THEN "none"
     ELSE IF g.lastAggressor # "null"
     THEN IF ~(soloEqualBets(g) /\ g.lastToActAfterAggro = "null") THEN "none"
          ELSE IF g.street = 5 \/ soloSomeoneAllIn(g) THEN "showdown"
          ELSE "reset"
     ELSE IF ~((bothChecked \/ preflopCallThenCheckClosed \/ postflopCallThenCheckClosed
                \/ allInCallClosed) /\ soloEqualBets(g)) THEN "none"
     ELSE IF soloSomeoneAllIn(g) THEN "showdown"
     ELSE "timer"

\* the callback settleIfStreetComplete hands to setTimeout, with the street
\* of the render it was created in
StreetTimer(g) == [street |-> g.street]

soloSettleAs(g, closure) ==
  CASE closure = "none" -> g
    [] closure = "reset" -> resetStreetRound(pullBetsIntoPot(g), NextStreet(g.street))
    [] closure = "showdown" ->
         soloResolveShowdown([pullBetsIntoPot(g) EXCEPT !.street = 5])
    [] closure = "timer" ->
         [pullBetsIntoPot(g) EXCEPT !.streetTimers = Append(@, StreetTimer(g))]

settleIfStreetComplete(g) == soloSettleAs(g, soloClosure(g))

\* the dependencies of the effect that calls settleIfStreetComplete
SettleDeps(g) ==
  <<g.game.bets, g.checked, g.lastAggressor, g.lastToActAfterAggro>>

\* the settle effect, run after every render in which a dependency changed
RECURSIVE soloSettled(_, _)
soloSettled(before, after) ==
  IF SettleDeps(before) = SettleDeps(after) THEN after
  ELSE soloSettled(after, settleIfStreetComplete(after))

\* the auto-next-hand effect of the single-player game
soloAutoNextHand(before, after) ==
  IF after.handResult.status = before.handResult.status THEN after
  ELSE [after EXCEPT !.nextHandTimer =
          IF after.handResult.status = "ended" /\ ~after.gameOver THEN 1 ELSE 0]

\* a handler ends: React renders and runs the effects
soloRendered(before, after) == soloAutoNextHand(before, soloSettled(before, after))

actFold(g, seat) ==
  IF g.handResult.status # "playing" THEN g
  ELSE soloEndHand([g EXCEPT !.logged = @ + 2], Other(seat))

actCheck(g, seat) ==
  IF g.handResult.status # "playing" \/ ~soloEqualBets(g) THEN g
  ELSE [g EXCEPT !.logged = @ + 1,
                 !.checked[seat] = TRUE,
                 !.actionsThisStreet = @ + 1,
                 !.toAct = IF g.street = 0 /\ g.sawCallThisStreet /\ soloEqualBets(g)
                           THEN @ ELSE Other(seat)]

amountToCall(g, seat) ==
  roundToHundredth(Max(0, g.game.bets[Other(seat)] - g.game.bets[seat]))

\* actCall's setGame: the call paid, the part the caller cannot match
\* refunded to the bettor
soloCallPaid(game, seat) ==
  LET other == Other(seat)
      toCall == roundToHundredth(Max(0, game.bets[other] - game.bets[seat]))
      add == roundToHundredth(Min(toCall, game.stacks[seat]))
      seatBet == roundToHundredth(game.bets[seat] + add)
      refund == IF add < toCall THEN roundToHundredth(Max(0, game.bets[other] - seatBet)) ELSE 0
  IN [game EXCEPT !.stacks[seat] = roundToHundredth(Max(0, @ - add)),
                  !.bets[seat] = seatBet,
                  !.stacks[other] = IF refund > 0 THEN roundToHundredth(@ + refund) ELSE @,
                  !.bets[other] = IF refund > 0 THEN roundToHundredth(@ - refund) ELSE @]

actCall(g, seat) ==
  IF g.handResult.status # "playing" THEN g
  ELSE IF roundToHundredth(Min(amountToCall(g, seat), g.game.stacks[seat])) <= 0
  THEN actCheck(g, seat)
  ELSE [g EXCEPT !.game = soloCallPaid(@, seat),
                 !.logged = @ + 1,
                 !.sawCallThisStreet = TRUE,
                 !.actionsThisStreet = @ + 1,
                 !.lastToActAfterAggro = IF @ = seat THEN "null" ELSE @,
                 !.toAct = Other(seat)]

\* actBetRaiseTo: the target it settles on, the opponent's bet when the
\* action is a call, the seat's own bet or less when it does nothing
soloRaiseTarget(g, seat, targetTotalBet) ==
  LET other == Other(seat)
      isFacing == g.game.bets[other] > g.game.bets[seat]
      minTarget == IF isFacing THEN roundToHundredth(g.game.bets[other] + g.lastRaiseSize)
                   ELSE BB
      maxPossible == roundToHundredth(g.game.bets[seat] + g.game.stacks[seat])
      maxEffective == roundToHundredth(Min(maxPossible, g.game.bets[other] + g.game.stacks[other]))
  IN IF isFacing /\ roundToHundredth(maxEffective) = roundToHundredth(g.game.bets[other])
     THEN g.game.bets[other]
     ELSE IF maxEffective < minTarget THEN maxEffective
     ELSE roundToHundredth(Max(minTarget, Min(targetTotalBet, maxEffective)))

soloBetRaiseAs(g, seat, target) ==
  LET other == Other(seat)
      isFacing == g.game.bets[other] > g.game.bets[seat]
  IN IF isFacing /\ roundToHundredth(target) = roundToHundredth(g.game.bets[other])
     THEN actCall(g, seat)
     ELSE IF roundToHundredth(target - g.game.bets[seat]) <= 0 THEN g
     ELSE [g EXCEPT !.game.stacks[seat] =
                      roundToHundredth(@ - roundToHundredth(target - g.game.bets[seat])),
                    !.game.bets[seat] = target,
                    !.lastRaiseSize = IF isFacing
                                      THEN roundToHundredth(target - g.game.bets[other])
                                      ELSE target,
                    !.logged = @ + 1,
                    !.streetBettor = seat,
                    !.actionsThisStreet = @ + 1,
                    !.checked = NoSeats,
                    !.lastAggressor = seat,
                    !.lastToActAfterAggro = other,
                    !.toAct = other]

actBetRaiseTo(g, seat, targetTotalBet) ==
  IF g.handResult.status # "playing" THEN g
  ELSE soloBetRaiseAs(g, seat, soloRaiseTarget(g, seat, targetTotalBet))

soloAct(g, seat, action) ==
  CASE action.type = "FOLD" -> actFold(g, seat)
    [] action.type = "CHECK" -> actCheck(g, seat)
    [] action.type = "CALL" -> actCall(g, seat)
    [] action.type = "BET_RAISE_TO" -> actBetRaiseTo(g, seat, action.to)

\* dispatchAction in single-player mode: the player's seat is bottom
dispatchAction(g, action) ==
  IF g.handResult.status # "playing" \/ g.gameOver \/ g.toAct # "bottom" THEN g
  ELSE soloAct(g, "bottom", action)

\* pickOpponentBetSize: 3 bb before the flop, half the pot after it
pickOpponentBetSize(g) ==
  IF g.street = 0 THEN 3 * BB
  ELSE roundToHundredth(g.game.bets.top + roundToHundredth(
         roundToHundredth(g.game.pot + g.game.bets.top + g.game.bets.bottom) \div 2))

\* opponentAct: mood stands for the draw of Math.random()
opponentAct(g, mood) ==
  LET facing == roundToHundredth(Max(0, g.game.bets.bottom - g.game.bets.top)) > 0
      tooMany == g.actionsThisStreet >= 4
      minRaiseTo == roundToHundredth(g.game.bets.bottom + g.lastRaiseSize)
  IN IF g.handResult.status # "playing" \/ g.toAct # "top" THEN g
     ELSE IF g.street = 0 /\ (g.game.bets.top = 0 \/ g.game.bets.bottom = 0) THEN g
     ELSE soloAct(g, "top",
            IF ~facing
            THEN IF tooMany \/ mood # "raise" THEN Check
                 ELSE BetRaiseTo(pickOpponentBetSize(g))
            ELSE IF mood = "fold" THEN Fold
            ELSE IF mood = "raise" /\ ~tooMany
            THEN BetRaiseTo(Max(pickOpponentBetSize(g), minRaiseTo))
            ELSE Call)

\* the callback of settleIfStreetComplete's 50 ms timer
streetTimeout(g, timer) ==
  IF timer.street < 5 THEN resetStreetRound(g, NextStreet(timer.street))
  ELSE soloResolveShowdown(g)

\* the callback of endHand's game-over timer
gameOverTimeout(g) ==
  [g EXCEPT !.gameOver = TRUE, !.nextHandTimer = 0, !.gameOverTimer = FALSE]

\* the actions the player clicks: the raise box holds 3 bb or 30 bb
SoloActions == {Fold, Check, Call, BetRaiseTo(3 * BB), BetRaiseTo(6000)}

Moods == {"fold", "call", "raise"}

\* a handler of the single-player game ends
SoloRan(g, op, seat, action) ==
  /\ solo' = soloRendered(solo, g)
  /\ acted' = acted + (IF action = NoAction THEN 0 ELSE 1)
  /\ last' = [op |-> op, seat |-> seat, action |-> action, payload |-> NoPayload,
              pre |-> solo, preJoiner |-> << >>, preMissed |-> FALSE, sent |-> << >>]
  /\ UNCHANGED <<hostState, joinerPc, joinerState, toJoiner, missed, page, scored>>

\* the player clicks an action button
SoloDispatchAction ==
  \E action \in SoloActions :
    LET g == dispatchAction(solo, action)
    IN /\ g.logged = solo.logged \/ acted < MaxActions
       /\ SoloRan(g, "dispatchAction", "bottom", IF g.logged = solo.logged THEN NoAction ELSE action)

\* the opponent's 1 s timer fires; a pending 50 ms timer fires before it
SoloOpponentActs ==
  /\ solo.handResult.status = "playing" /\ solo.toAct = "top"
  /\ solo.streetTimers = << >>
  /\ \E mood \in Moods :
       LET g == opponentAct(solo, mood)
       IN /\ g.logged = solo.logged \/ acted < MaxActions
          /\ SoloRan(g, "opponentAct", "top",
                     IF g.logged = solo.logged THEN NoAction ELSE [type |-> mood, to |-> 0])

\* the oldest 50 ms timer of settleIfStreetComplete fires
SoloStreetTimer ==
  /\ solo.streetTimers # << >>
  /\ SoloRan(streetTimeout([solo EXCEPT !.streetTimers = Tail(@)], Head(solo.streetTimers)),
             "streetTimer", "none", NoAction)

\* the game-over timer of endHand fires
SoloGameOverTimer ==
  /\ solo.gameOverTimer
  /\ solo.streetTimers = << >>
  /\ SoloRan(gameOverTimeout(solo), "gameOverTimer", "none", NoAction)

\* the 8 s next-hand timer fires; the shorter timers fire before it
SoloNextHandTimer ==
  /\ solo.nextHandTimer > 0
  /\ solo.streetTimers = << >> /\ ~solo.gameOverTimer
  /\ solo.handId + 1 < MaxHands
  /\ \E deal \in dealCards :
       SoloRan(soloStartNewHand([solo EXCEPT !.nextHandTimer = 0], deal),
               "nextHandTimer", "none", NoAction)

\* the page after resetGame
InitSolo ==
  /\ hostState = createInitialState(0)
  /\ joinerPc = "absent"
  /\ joinerState = << >>
  /\ toJoiner = << >>
  /\ missed = FALSE
  /\ acted = 0
  /\ page = NoPage
  /\ scored = << >>
  /\ \E dealerOffset \in {0, 1}, deal \in dealCards : solo = soloResetGame(dealerOffset, deal)
  /\ last = [op |-> "resetGame", seat |-> "none", action |-> NoAction, payload |-> NoPayload,
             pre |-> solo, preJoiner |-> << >>, preMissed |-> FALSE, sent |-> << >>]

NextSolo ==
  \/ SoloDispatchAction
  \/ SoloOpponentActs
  \/ SoloStreetTimer
  \/ SoloGameOverTimer
  \/ SoloNextHandTimer

\* the single-player game of the page
SpecSolo == InitSolo /\ [][NextSolo]_vars

\* ------------------------------------------------------------------ the evaluator

\* the index sets of the five-card hands best5From7 tries
FiveOf(n) == {I \in SUBSET (1..n) : Cardinality(I) = 5}

\* the cards of all at the indices I, in the order of all
RECURSIVE Pick(_, _)
Pick(all, I) ==
  IF I = {} THEN << >>
  ELSE LET i == CHOOSE m \in I : \A x \in I : m <= x
       IN <<all[i]>> \o Pick(all, I \ {i})

\* the loops of best5From7 reach the hand at I before the hand at J
TriedBefore(I, J) ==
  LET d == (I \ J) \cup (J \ I)
  IN d # {} /\ (CHOOSE m \in d : \A x \in d : m <= x) \in I

\* best5From7: the first of the five-card hands no other one beats
best5From7(all) ==
  LET score == [I \in FiveOf(Len(all)) |-> evaluate7(Pick(all, I))]
      best == CHOOSE I \in DOMAIN score :
                \A J \in DOMAIN score \ {I} :
                  \/ compareScore(score[I], score[J]) > 0
                  \/ compareScore(score[I], score[J]) = 0 /\ TriedBefore(I, J)
  IN Pick(all, best)

\* the cards the hands are drawn from: the ace to the six in two suits
LowCards ==
  << Card("A", "s"), Card("2", "s"), Card("3", "s"), Card("4", "s"), Card("5", "s"),
     Card("6", "s"), Card("A", "h"), Card("2", "h"), Card("3", "h"), Card("4", "h"),
     Card("5", "h"), Card("6", "h") >>

\* three ranks in the four suits
ThreeRanks ==
  << Card("A", "s"), Card("A", "h"), Card("A", "d"), Card("A", "c"),
     Card("K", "s"), Card("K", "h"), Card("K", "d"), Card("K", "c"),
     Card("Q", "s"), Card("Q", "h"), Card("Q", "d"), Card("Q", "c") >>

\* seven ranks with no straight and no flush among them
GappedCards ==
  << Card("K", "s"), Card("K", "h"), Card("J", "d"), Card("J", "c"),
     Card("9", "s"), Card("9", "h"), Card("7", "d"), Card("2", "s"),
     Card("5", "s"), Card("3", "h"), Card("2", "d"), Card("2", "c") >>

\* seven spades and five cards of other suits
SpadeCards ==
  << Card("A", "s"), Card("K", "s"), Card("Q", "s"), Card("J", "s"), Card("T", "s"),
     Card("9", "s"), Card("2", "s"), Card("A", "h"), Card("K", "h"), Card("9", "d"),
     Card("8", "d"), Card("2", "h") >>

Decks == {LowCards, ThreeRanks, GappedCards, SpadeCards}

\* the hand drawn so far, in the order of the deck
HandOf(e) == Pick(e.deck, e.picked)

\* a deck is chosen
InitEval ==
  /\ hostState = createInitialState(0)
  /\ joinerPc = "absent"
  /\ joinerState = << >>
  /\ toJoiner = << >>
  /\ missed = FALSE
  /\ acted = 0
  /\ page = NoPage
  /\ solo = << >>
  /\ \E deck \in Decks :
       scored = [deck |-> deck, picked |-> {}, score |-> << >>, best |-> << >>]
  /\ last = [op |-> "constructor", seat |-> "none", action |-> NoAction, payload |-> NoPayload,
             pre |-> hostState, preJoiner |-> << >>, preMissed |-> FALSE, sent |-> << >>]

\* a card of the deck is dealt into the hand
EvalDeal ==
  /\ Cardinality(scored.picked) < 7
  /\ \E i \in 1..Len(scored.deck) :
       /\ \A j \in scored.picked : j < i
       /\ scored' = [scored EXCEPT !.picked = @ \cup {i}]
  /\ UNCHANGED <<hostState, joinerPc, joinerState, toJoiner, missed, acted, page, solo, last>>

\* resolveShowdown scores the seven cards: evaluate7 on them, and evaluate7
\* on the hand best5From7 picks
EvalScore ==
  /\ Cardinality(scored.picked) = 7
  /\ scored.score = << >>
  /\ scored' = [scored EXCEPT !.score = evaluate7(HandOf(scored)),
                              !.best = evaluate7(best5From7(HandOf(scored)))]
  /\ UNCHANGED <<hostState, joinerPc, joinerState, toJoiner, missed, acted, page, solo, last>>

NextEval ==
  \/ EvalDeal
  \/ EvalScore

\* the hand evaluator on seven cards of a deck
SpecEval == InitEval /\ [][NextEval]_vars

\* ------------------------------------------------------------------ claims

\* the chips of a state: both stacks, both bets and the pot
Chips(s) ==
  s.game.stacks.top + s.game.stacks.bottom + s.game.bets.top + s.game.bets.bottom + s.game.pot

\* C1: once startHand has posted the blinds, after every processAction and
\* every showHand the stacks, the bets and the pot add up to the sum of
\* handStartStacks exactly
C1_ChipConservation ==
  hostState.blindsPosted =>
    Chips(hostState) = hostState.handStartStacks.top + hostState.handStartStacks.bottom

\* every HOST_STATE the host has sent since the joiner's first has been
\* delivered: none waits in the channel and none was lost since
C2_Quiescent ==
  joinerState # << >> /\ toJoiner = << >> /\ ~missed => joinerState = <<hostState>>

\* the mirror changes only to the state of the payload the channel delivers,
\* and a payload the host adds to the channel carries the host's state
C2_Provenance ==
  [][ /\ joinerState' # joinerState =>
           toJoiner # << >> /\ joinerState' = Head(toJoiner).state
      /\ \A i \in (Len(toJoiner) + 1)..Len(toJoiner') :
           toJoiner'[i] = broadcastFullState(hostState') ]_vars

C3_RejectedActionIsNoOp ==
  last.op = "processAction" /\ ~Accepts(last.pre, last.seat) => hostState = last.pre

\* processAction was called for the seat to act of a hand that had ended
C3_Witness ==
  /\ last.op = "processAction"
  /\ last.pre.handResult.status = "ended"
  /\ last.seat = last.pre.toAct
  /\ hostState = last.pre

HostOps == {"startHand", "processAction", "showHand", "onHostBroadcast"}

\* C4: a host operation that changes the state (startHand, an accepted
\* processAction, showHand, each called locally or by a remote message) sends
\* within the operation one HOST_STATE carrying the complete state it leaves
C4_ChangeIsBroadcast ==
  last.op \in HostOps /\ hostState # last.pre =>
    last.sent = <<broadcastFullState(hostState)>>

\* a remote ACTION was applied and the state it left was broadcast
C4_Witness ==
  /\ last.op = "onHostBroadcast" /\ last.payload.event = "ACTION"
  /\ hostState # last.pre
  /\ last.sent = <<broadcastFullState(hostState)>>

\* the channel delivered a HOST_STATE of the host to the joiner
Delivered ==
  /\ last.op = "onJoinerBroadcast"
  /\ last.payload.event = "HOST_STATE" /\ last.payload.sender # JoinerId

\* C5: on delivery of a HOST_STATE the mirror equals that snapshot in every
\* field, whatever it held before and whatever was missed
C5_SnapshotReplacesMirror == Delivered => joinerState = last.payload.state

\* a snapshot was delivered to a mirror that had missed the one before it
C5_Witness ==
  /\ Delivered /\ last.preMissed
  /\ last.preJoiner # << >> /\ last.preJoiner # last.payload.state
  /\ joinerState = last.payload.state

\* C6: a HOST_STATE delivered a second time leaves the mirror as it was
\* after the first delivery
C6_DuplicateIsNoOp == last.op = "onJoinerDuplicate" => joinerState = last.preJoiner

\* a snapshot with a log of actions was delivered twice
C6_Witness ==
  /\ last.op = "onJoinerDuplicate"
  /\ last.payload.event = "HOST_STATE"
  /\ joinerState = last.payload.state
  /\ Len(joinerState[1].actionLog) > 2

JoinerSends == {"sendAction", "sendShowHand", "requestState"}

\* C7: sendAction, sendShowHand and requestState leave the mirror unchanged,
\* and the mirror changes only on receipt of a HOST_STATE of another sender
C7_JoinerRunsNoGameLogic ==
  /\ last.op \in JoinerSends => joinerState = last.preJoiner
  /\ joinerState # last.preJoiner => Delivered

\* the joiner sent an action for the seat its mirror shows to act
C7_Witness ==
  /\ last.op = "sendAction"
  /\ joinerState # << >>
  /\ Accepts(joinerState[1], last.seat)
  /\ joinerState = last.preJoiner
  /\ last.sent = <<ActionPayload(JoinerId, last.seat, last.action)>>

\* C8: the host and the joiner ignore a payload whose sender is their own
\* id: no state change, nothing sent
C8_OwnMessagesIgnored ==
  /\ last.op = "onHostBroadcast" /\ last.payload.sender = HostId =>
       hostState = last.pre /\ last.sent = << >>
  /\ last.op = "onJoinerBroadcast" /\ last.payload.sender = JoinerId =>
       joinerState = last.preJoiner /\ last.sent = << >>

\* the host was handed its own ACTION for the seat to act
C8_Witness ==
  /\ last.op = "onHostBroadcast" /\ last.payload.sender = HostId
  /\ last.payload.event = "ACTION"
  /\ Accepts(last.pre, last.seat)
  /\ hostState = last.pre /\ last.sent = << >>

\* C9: an ACTION or SHOW_HAND of the joiner that names the host's seat,
\* bottom, leaves the host state unchanged
C9_RemoteSeatChecked ==
  /\ last.op = "onHostBroadcast" /\ last.payload.sender = JoinerId
  /\ last.payload.event \in {"ACTION", "SHOW_HAND"}
  /\ last.seat = "bottom"
  => hostState = last.pre

\* the state an accepted FOLD by seat leaves, as the claim words it
FoldOutcome(pre, post, seat) ==
  /\ post.handResult.status = "ended"
  /\ post.handResult.winner = Other(seat)
  /\ post.handResult.reason = "fold"
  /\ post.game.stacks[Other(seat)] =
       pre.game.stacks[Other(seat)] + pre.game.pot + pre.game.bets.top + pre.game.bets.bottom
  /\ post.game.stacks[seat] = pre.game.stacks[seat]
  /\ post.game.pot = 0
  /\ post.game.bets = [top |-> 0, bottom |-> 0]

\* C10: a FOLD by the seat to act of a hand in play, on any street, is
\* accepted and ends the hand: the other seat wins by fold and receives the
\* pot and both bets, the folder's stack is unchanged, pot and bets are 0
C10_FoldEndsHand ==
  /\ last.op = "processAction" /\ last.action = Fold =>
       FoldOutcome(last.pre, hostState, last.seat)
  /\ hostState.blindsPosted /\ hostState.handResult.status = "playing" =>
       FoldOutcome(hostState, processAction(hostState, hostState.toAct, Fold).state,
                   hostState.toAct)

\* a FOLD was accepted on the river, with chips in the pot and on the street
C10_Witness ==
  /\ last.op = "processAction" /\ last.action = Fold
  /\ last.pre.street = 5
  /\ last.pre.game.pot > 0
  /\ last.pre.game.bets[Other(last.seat)] > 0
  /\ hostState.handResult.reason = "fold"

\* the engine applied an action of this type for last.seat
Applies(type) == last.op = "processAction" /\ last.action.type = type

\* C11: a CHECK by the seat to act that faces a larger bet leaves the state
\* unchanged
C11_CheckNeedsMatchedBets ==
  Applies("CHECK") /\ last.pre.game.bets[last.seat] < last.pre.game.bets[Other(last.seat)]
  => hostState = last.pre

\* the state handleCall leaves before it passes the turn or closes the street
CallSettledOf(pre, seat) ==
  CallSettled(pre, seat,
              roundToHundredth(pre.game.bets[Other(seat)] - pre.game.bets[seat]),
              roundToHundredth(Min(roundToHundredth(pre.game.bets[Other(seat)]
                                                    - pre.game.bets[seat]),
                                   pre.game.stacks[seat])))

\* C12: an accepted CALL commits min(max(0, opponent's bet - own bet), own
\* stack) and takes no chips back; it leaves the two bets equal and the
\* caller's bet not smaller than before
C12_CallCommits ==
  Applies("CALL") =>
    LET pre == last.pre
        seat == last.seat
        commit == Min(Max(0, pre.game.bets[Other(seat)] - pre.game.bets[seat]),
                      pre.game.stacks[seat])
        settled == CallSettledOf(pre, seat)
    IN /\ settled.game.stacks[seat] = pre.game.stacks[seat] - commit
       /\ settled.game.bets.top = settled.game.bets.bottom
       /\ settled.game.bets[seat] >= pre.game.bets[seat]
       /\ hostState.handResult.status = "playing" =>
            hostState.game.stacks[seat] = pre.game.stacks[seat] - commit

\* the chips a seat has in all: its bet and its stack
Total(s, seat) == s.game.bets[seat] + s.game.stacks[seat]

\* C13: a BET_RAISE_TO facing a bet, with a target below the opponent's bet
\* plus lastRaiseSize that the seat can cover, is applied as a raise to
\* exactly that minimum
C13_MinRaiseClamp ==
  LET pre == last.pre
      seat == last.seat
      minTarget == pre.game.bets[Other(seat)] + pre.lastRaiseSize
  IN /\ Applies("BET_RAISE_TO")
     /\ pre.game.bets[Other(seat)] > pre.game.bets[seat]
     /\ last.action.to < minTarget
     /\ Total(pre, seat) >= minTarget /\ Total(pre, Other(seat)) >= minTarget
     => hostState.game.bets[seat] = minTarget

\* C14: after an accepted BET_RAISE_TO the acting seat's bet is at most the
\* smaller of the two seats' chips in all before the action
C14_EffectiveStackCap ==
  Applies("BET_RAISE_TO") =>
    hostState.game.bets[last.seat]
      <= Min(Total(last.pre, last.seat), Total(last.pre, Other(last.seat)))

\* C15: a BET_RAISE_TO that resolves to the opponent's bet is a call: it
\* changes neither lastAggressor nor lastRaiseSize, and no raise leaves the
\* raiser as last aggressor with the two bets equal
C15_RaiseToOpponentBetIsCall ==
  Applies("BET_RAISE_TO") =>
    /\ Min(last.action.to, Total(last.pre, last.seat)) = last.pre.game.bets[Other(last.seat)]
         => /\ hostState.lastAggressor = last.pre.lastAggressor
            /\ hostState.lastRaiseSize = last.pre.lastRaiseSize
    /\ ~(hostState.lastAggressor = last.seat
          /\ hostState.game.bets.top = hostState.game.bets.bottom)

\* C16: after an accepted bet or raise lastAggressor is the acting seat, both
\* checked flags are false and lastRaiseSize is the new bet minus the larger
\* of the two bets before the action
C16_LastRaiseSizeIsIncrement ==
  Applies("BET_RAISE_TO") =>
    /\ hostState.lastAggressor = last.seat
    /\ hostState.checked = [top |-> FALSE, bottom |-> FALSE]
    /\ hostState.lastRaiseSize =
         hostState.game.bets[last.seat]
           - Max(last.pre.game.bets.top, last.pre.game.bets.bottom)

\* C17: preflop, with both blinds posted and the seat to act not facing a
\* bet, an accepted BET_RAISE_TO leaves a bet of at least the larger bet
\* plus one big blind when the seats can cover it
C17_PreflopMinOpen ==
  LET pre == last.pre
      seat == last.seat
      minOpen == Max(pre.game.bets.top, pre.game.bets.bottom) + BB
  IN /\ Applies("BET_RAISE_TO")
     /\ pre.street = 0
     /\ pre.game.bets.top > 0 /\ pre.game.bets.bottom > 0
     /\ pre.game.bets[Other(seat)] <= pre.game.bets[seat]
     /\ Total(pre, seat) >= minOpen /\ Total(pre, Other(seat)) >= minOpen
     => hostState.game.bets[seat] >= minOpen

\* the action closed the street: the street changed or the hand went to
\* showdown
ClosedStreet ==
  /\ last.op = "processAction"
  /\ last.action.type \in {"CHECK", "CALL", "BET_RAISE_TO"}
  /\ hostState.street # last.pre.street \/ hostState.handResult.reason = "showdown"

\* the bets advanceStreet found: what handleCall settled, or the bets before
\* a check
ClosingBets ==
  IF last.action.type = "CALL" THEN CallSettledOf(last.pre, last.seat).game.bets
  ELSE last.pre.game.bets

\* C18: when an action closes the street the two bets were equal; after it
\* both bets are 0 and, while the hand plays on, the pot has grown by their sum
C18_StreetClosesMatched ==
  ClosedStreet =>
    /\ ClosingBets.top = ClosingBets.bottom
    /\ hostState.game.bets = [top |-> 0, bottom |-> 0]
    /\ hostState.handResult.status = "playing" =>
         hostState.game.pot = last.pre.game.pot + ClosingBets.top + ClosingBets.bottom

\* the blinds startHand posted in full: SB 0.5 by the dealer, BB 1 by the
\* other seat
FullBlinds(s) ==
  /\ s.handStartStacks[DealerSeatOf(s.dealerOffset)] >= SB
  /\ s.handStartStacks[Other(DealerSeatOf(s.dealerOffset))] >= BB

\* preflop with no action yet: the state startHand leaves
JustStarted(s) ==
  /\ s.street = 0 /\ s.handResult.status = "playing" /\ s.blindsPosted
  /\ s.actionsThisStreet = 0 /\ s.lastAggressor = "null"
  /\ s.checked = [top |-> FALSE, bottom |-> FALSE]
  /\ s.toAct = DealerSeatOf(s.dealerOffset)

\* the engine applied the dealer's CALL to the state startHand left
DealerLimped ==
  /\ Applies("CALL") /\ JustStarted(last.pre) /\ FullBlinds(last.pre)

\* preflop after the dealer's limp and nothing else: one action counted, no
\* aggressor, no check, the big blind to act
Limped(s) ==
  /\ s.street = 0 /\ s.handResult.status = "playing" /\ s.blindsPosted
  /\ s.actionsThisStreet = 1 /\ s.lastAggressor = "null"
  /\ s.checked = [top |-> FALSE, bottom |-> FALSE]
  /\ s.toAct = Other(DealerSeatOf(s.dealerOffset))

\* the engine applied the big blind's CHECK after the dealer's limp
BigBlindCheckedLimp ==
  /\ Applies("CHECK") /\ Limped(last.pre) /\ FullBlinds(last.pre)

\* the limp left the turn with the big blind and the street open
LimpPassesTurn ==
  /\ hostState.street = 0
  /\ hostState.handResult.status = "playing"
  /\ hostState.toAct = Other(last.seat)
  /\ hostState.game.pot = last.pre.game.pot

\* the flop opened with the blinds in the pot and the round state reset
FlopOpened ==
  /\ hostState.street = 3
  /\ hostState.handResult.status = "playing"
  /\ hostState.game.pot = 2 * BB
  /\ hostState.game.bets = [top |-> 0, bottom |-> 0]
  /\ hostState.checked = [top |-> FALSE, bottom |-> FALSE]
  /\ hostState.lastAggressor = "null"
  /\ hostState.actionsThisStreet = 0
  /\ hostState.lastRaiseSize = BB
  /\ hostState.toAct = Other(DealerSeatOf(hostState.dealerOffset))

\* both seats started the hand with more than one big blind
DeeperThanBlinds(s) ==
  /\ s.handStartStacks.top > BB
  /\ s.handStartStacks.bottom > BB

StreetOpened ==
  /\ last.op = "processAction"
  /\ hostState.street # last.pre.street
  /\ hostState.handResult.status = "playing"

\* C20: a betting round opens with the dealer to act preflop, after
\* startHand, and with the non-dealer to act on the flop, the turn and the
\* river, after a street advance
C20_FirstToAct ==
  /\ last.op = "startHand" /\ hostState.handResult.status = "playing"
       => /\ hostState.street = 0
          /\ hostState.toAct = DealerSeatOf(hostState.dealerOffset)
  /\ StreetOpened
       => /\ hostState.street \in {3, 4, 5}
          /\ hostState.toAct = Other(DealerSeatOf(hostState.dealerOffset))

C20_Witness ==
  /\ StreetOpened
  /\ last.pre.street = 4 /\ hostState.street = 5
  /\ hostState.dealerOffset = 1
  /\ hostState.toAct = "top"

\* the state advanceStreet found: what handleCall settled, or the state
\* before a check
ClosingState ==
  IF last.action.type = "CALL" THEN CallSettledOf(last.pre, last.seat) ELSE last.pre

\* C21: when a street before the river closes while a stack is empty, the
\* hand is at showdown in the same step: street 5 and the hand ended
C21_AllInRunOut ==
  ClosedStreet /\ last.pre.street \in {0, 3, 4} /\ SomeoneAllIn(ClosingState)
  => /\ hostState.street = 5
     /\ hostState.handResult.status = "ended"
     /\ hostState.handResult.reason = "showdown"

\* the seat that acted could not cover the bet it faced
CouldNotCover == Total(last.pre, last.seat) < last.pre.game.bets[Other(last.seat)]

\* a CALL or a BET_RAISE_TO by a seat that could not cover ends at showdown
ShortSeatGoesToShowdown ==
  (Applies("CALL") \/ Applies("BET_RAISE_TO")) /\ CouldNotCover
  => hostState.handResult.reason = "showdown"

\* a CALL that leaves a stack at 0 ends at showdown
AllInCallGoesToShowdown ==
  Applies("CALL") /\ SomeoneAllIn(CallSettledOf(last.pre, last.seat))
  => hostState.handResult.reason = "showdown"

\* C22: a seat that cannot cover the bet it faces commits its stack as a
\* call whether it sends CALL or BET_RAISE_TO, and a call that leaves a
\* stack at 0 closes the street at once: in both cases the hand is at
\* showdown after the action and no seat is given a turn
C22_AllInCallClosesHand ==
  ShortSeatGoesToShowdown /\ AllInCallGoesToShowdown

\* the action took the hand to showdown
WentToShowdown ==
  (Applies("CHECK") \/ Applies("CALL")) /\ hostState.handResult.reason = "showdown"

\* the seven cards of a seat: its two hole cards and the five board cards
SevenCards(s, seat) ==
  (IF seat = "top" THEN SubSeq(s.cards, 1, 2) ELSE SubSeq(s.cards, 3, 4))
    \o SubSeq(s.cards, 5, 9)

\* what a seat received at the showdown
Gain(e, seat) == hostState.game.stacks[seat] - e.game.stacks[seat]

Abs(n) == IF n < 0 THEN -n ELSE n

\* the settlement of a showdown entered in state e with the pot potSize and
\* cmp the comparison of bottom's score with top's
Settles(e, potSize, cmp) ==
  /\ cmp > 0 => /\ hostState.handResult.winner = "bottom"
                /\ Gain(e, "bottom") = potSize /\ Gain(e, "top") = 0
  /\ cmp < 0 => /\ hostState.handResult.winner = "top"
                /\ Gain(e, "top") = potSize /\ Gain(e, "bottom") = 0
  /\ cmp = 0 => /\ hostState.handResult.winner = "tie"
                /\ Gain(e, "top") + Gain(e, "bottom") = potSize
                /\ Abs(Gain(e, "top") - Gain(e, "bottom")) <= 2

\* C23: at a showdown the seat whose seven cards score strictly higher
\* receives pot + both bets and the other stack is unchanged; on equal
\* scores the winner is tie and the seats receive amounts that sum to the
\* whole pot and differ by at most one hundredth
C23_ShowdownSettlement ==
  WentToShowdown =>
    Settles(ClosingState,
            ClosingState.game.pot + ClosingState.game.bets.top + ClosingState.game.bets.bottom,
            compareScore(evaluate7(SevenCards(hostState, "bottom")),
                         evaluate7(SevenCards(hostState, "top"))))

C23_Witness ==
  /\ WentToShowdown
  /\ hostState.handResult.winner = "tie"
  /\ Gain(ClosingState, "top") > 0

\* the seat the claim names first to reveal: the last aggressor of the
\* street the showdown closed, or the non-dealer when it had none
FirstRevealer(e) ==
  IF e.lastAggressor # "null" THEN e.lastAggressor
  ELSE Other(DealerSeatOf(e.dealerOffset))

\* the second seat has to reveal: it wins or ties, or a stack is empty
SecondReveals(e, first) ==
  \/ hostState.handResult.winner \in {Other(first), "tie"}
  \/ SomeoneAllIn(e)

\* the number of log entries of the award: two for a split pot, else one
AwardEntries == IF hostState.handResult.winner = "tie" THEN 2 ELSE 1

\* the log entry of the i-th seat to reveal or muck at the showdown
ShowEntry(i) == hostState.actionLog[Len(hostState.actionLog) - AwardEntries - 2 + i]

\* the seat revealed: its cards are open in the state
Revealed(seat) == IF seat = "top" THEN hostState.oppRevealed ELSE ~hostState.youMucked

\* the show order of a showdown entered in state e with first to reveal
ShowsInOrder(e, first) ==
  /\ ShowEntry(1).seat = first /\ ShowEntry(1).text.kind = "Shows"
  /\ Revealed(first)
  /\ ShowEntry(2).seat = Other(first)
  /\ ShowEntry(2).text.kind = IF SecondReveals(e, first) THEN "Shows" ELSE "Mucked"
  /\ Revealed(Other(first)) <=> SecondReveals(e, first)

\* C24: at a showdown the first seat to reveal is the last aggressor of the
\* final betting street, or the non-dealer when that street had no bet; it
\* always reveals; the second seat reveals exactly when it wins, ties or a
\* stack is empty, and is logged as mucked otherwise
C24_ShowOrder ==
  WentToShowdown => ShowsInOrder(ClosingState, FirstRevealer(ClosingState))

C24_Witness ==
  /\ WentToShowdown
  /\ ClosingState.lastAggressor # "null"
  /\ ShowEntry(1).seat = ClosingState.lastAggressor
  /\ ShowEntry(2).text.kind = "Mucked"

\* the host ran handleShowHand for last.seat: showHand called on the host, or
\* a SHOW_HAND payload of the joiner handed to its listener
ShowHandRan ==
  \/ last.op = "showHand"
  \/ /\ last.op = "onHostBroadcast"
     /\ last.payload.event = "SHOW_HAND"
     /\ last.payload.sender # HostId

CanShow(s, seat) == IF seat = "top" THEN s.canShowTop ELSE s.canShowBottom

Showed(s, seat) == IF seat = "top" THEN s.topShowed ELSE s.bottomShowed

\* the state differs from pre in the seat's showed flag and in one more log
\* entry, a 'Shows' of the seat, and in nothing else
ShowedOnce(pre, seat) ==
  /\ Showed(hostState, seat)
  /\ Len(hostState.actionLog) = Len(pre.actionLog) + 1
  /\ SubSeq(hostState.actionLog, 1, Len(pre.actionLog)) = pre.actionLog
  /\ hostState.actionLog[Len(hostState.actionLog)].seat = seat
  /\ hostState.actionLog[Len(hostState.actionLog)].text.kind = "Shows"
  /\ [hostState EXCEPT !.actionLog = pre.actionLog,
                       !.actionSequence = pre.actionSequence,
                       !.topShowed = pre.topShowed,
                       !.bottomShowed = pre.bottomShowed] = pre
  /\ Showed(hostState, Other(seat)) = Showed(pre, Other(seat))

\* C25: showHand changes the host state only when the seat's canShow flag
\* is true and its showed flag false; it then sets the showed flag and
\* appends one 'Shows' entry and changes nothing else; otherwise, and so for
\* a second showHand of the seat, the state is unchanged
C25_ShowHandOnce ==
  ShowHandRan =>
    IF CanShow(last.pre, last.seat) /\ ~Showed(last.pre, last.seat)
    THEN ShowedOnce(last.pre, last.seat)
    ELSE hostState = last.pre

\* a remote SHOW_HAND was applied, and so a second one would be refused
C25_Witness ==
  /\ last.op = "onHostBroadcast" /\ ShowHandRan
  /\ Showed(hostState, last.seat) /\ ~Showed(last.pre, last.seat)

\* the seat lost the hand that has ended
Lost(s, seat) == s.handResult.status = "ended" /\ s.handResult.winner = Other(seat)

\* C26: a seat's canShow flag is true only while the hand is ended, the seat
\* lost it and has not revealed its cards: never for the winner, after a
\* tie or while a hand is playing
C26_ShowEligibility ==
  \A seat \in Seats :
    CanShow(hostState, seat) => Lost(hostState, seat) /\ ~Showed(hostState, seat)

\* the hand had ended before the last operation
WasEnded == last.pre.handResult.status = "ended"

\* an ended hand is left alone by processAction
EndedIsFrozen ==
  last.op = "processAction" /\ WasEnded =>
    /\ hostState.handResult = last.pre.handResult
    /\ hostState.game = last.pre.game
    /\ hostState.street = last.pre.street
    /\ hostState.toAct = last.pre.toAct

\* only startHand takes an ended hand back to playing
OnlyStartHandReopens ==
  WasEnded /\ hostState.handResult.status = "playing" => last.op = "startHand"

\* a hand ends by an applied fold, or at a showdown after a check or a call
EndsByFoldOrShowdown ==
  ~WasEnded /\ hostState.handResult.status = "ended" =>
    \/ Applies("FOLD") /\ hostState.handResult.reason = "fold"
    \/ (Applies("CHECK") \/ Applies("CALL")) /\ hostState.handResult.reason = "showdown"

\* C27: within a hand handResult.status goes from playing to ended only by
\* a fold or a showdown; once ended, processAction changes neither
\* handResult nor stacks, pot, bets, street or toAct, and only startHand
\* returns the status to playing
C27_EndedOncePerHand ==
  EndedIsFrozen /\ OnlyStartHandReopens /\ EndsByFoldOrShowdown

\* the seat to act called processAction on an ended hand
C27_Witness ==
  /\ last.op = "processAction" /\ WasEnded
  /\ last.seat = last.pre.toAct
  /\ last.pre.handResult.reason = "showdown"

\* a hand that ends with an empty stack sets gameOver in the same step
EmptyStackEndsMatch ==
  ~WasEnded /\ hostState.handResult.status = "ended" /\ SomeoneAllIn(hostState)
  => hostState.gameOver

\* gameOver is never cleared
GameOverStays == last.pre.gameOver => hostState.gameOver

\* startHand on a finished match deals no hand, keeps the dealer and posts
\* no blind
NoHandAfterGameOver ==
  last.op = "startHand" /\ last.pre.gameOver =>
    /\ hostState.handId = last.pre.handId
    /\ hostState.dealerOffset = last.pre.dealerOffset
    /\ hostState.handResult = last.pre.handResult
    /\ hostState.game = last.pre.game

\* C28: a hand that ends with a stack <= 0 sets gameOver in the same step,
\* gameOver never becomes false again, and no later startHand deals a new
\* hand, flips the dealer or posts blinds
C28_GameOverIsTerminal ==
  EmptyStackEndsMatch /\ GameOverStays /\ NoHandAfterGameOver

\* C29: in every host state both stacks, both bets and the pot are >= 0
C29_NonNegativeLedger ==
  /\ hostState.game.stacks.top >= 0 /\ hostState.game.stacks.bottom >= 0
  /\ hostState.game.bets.top >= 0 /\ hostState.game.bets.bottom >= 0
  /\ hostState.game.pot >= 0

\* an amount is a whole number of hundredths of a big blind
WholeHundredths(n) == n % 2 = 0

\* C30: in every host state each stack, each bet and the pot is a whole
\* number of hundredths of a big blind
C30_FixedPrecision ==
  /\ WholeHundredths(hostState.game.stacks.top)
  /\ WholeHundredths(hostState.game.stacks.bottom)
  /\ WholeHundredths(hostState.game.bets.top)
  /\ WholeHundredths(hostState.game.bets.bottom)
  /\ WholeHundredths(hostState.game.pot)

\* C31: street is 0, 3, 4 or 5; no processAction call lowers it; startHand
\* sets it to 0
C31_StreetMonotone ==
  /\ hostState.street \in {0, 3, 4, 5}
  /\ last.op = "processAction" => hostState.street >= last.pre.street
  /\ last.op = "startHand" => hostState.street = 0

\* a hand was started after one that ended on the river
C31_Witness ==
  /\ last.op = "startHand" /\ last.pre.street = 5
  /\ hostState.street = 0

\* startHand ran on a host that had dealt no hand yet
FirstHandStarted == last.op = "startHand" /\ ~last.pre.blindsPosted

\* startHand ran on a host that had dealt a hand before
LaterHandStarted == last.op = "startHand" /\ last.pre.blindsPosted

\* the seat that posted the small blind and acts first: the dealer in effect
ActingDealer == hostState.toAct

\* C32: the first hand's dealer is the seat of the initial dealerOffset;
\* every later startHand flips dealerOffset, so the dealer is the seat that
\* was not the dealer of the hand before
C32_DealerAlternates ==
  /\ FirstHandStarted =>
       /\ hostState.dealerOffset = last.pre.dealerOffset
       /\ hostState.dealerSeat = DealerSeatOf(last.pre.dealerOffset)
       /\ ActingDealer = DealerSeatOf(last.pre.dealerOffset)
  /\ LaterHandStarted =>
       /\ hostState.dealerOffset = 1 - last.pre.dealerOffset
       /\ hostState.dealerSeat = Other(last.pre.dealerSeat)
       /\ ActingDealer = Other(DealerSeatOf(last.pre.dealerOffset))

\* a second hand was started with the dealer moved from bottom to top
C32_Witness ==
  /\ LaterHandStarted
  /\ last.pre.dealerSeat = "bottom" /\ hostState.dealerSeat = "top"

\* r is 0.75 of n rounded to a whole hundredth of a big blind
ThreeQuartersOf(n, r) == r % 2 = 0 /\ Abs(4 * r - 3 * n) <= 4

\* the hand started is the first of a later blind level
StartsBlindLevel ==
  hostState.handId > 0 /\ hostState.handId % BLINDS_INCREASE_EVERY_N_HANDS = 0

\* C33: startHand scales both stacks to 0.75, rounded to hundredths, before
\* it records handStartStacks and posts the blinds, exactly when the new
\* handId is a positive multiple of BLINDS_INCREASE_EVERY_N_HANDS; in every
\* other hand the stacks are carried over as they were. The blinds come out
\* of the recorded stacks, to the half hundredth that posting them rounds.
C33_BlindLevelReduction ==
  last.op = "startHand" =>
    \A seat \in Seats :
      /\ IF StartsBlindLevel
         THEN ThreeQuartersOf(last.pre.game.stacks[seat], hostState.handStartStacks[seat])
         ELSE hostState.handStartStacks[seat] = last.pre.game.stacks[seat]
      /\ Abs(hostState.game.stacks[seat] + hostState.game.bets[seat]
               - hostState.handStartStacks[seat]) <= 1

\* the sixth hand was started and 24.5 bb became 18.38 bb
C33_Witness ==
  /\ last.op = "startHand" /\ hostState.handId = BLINDS_INCREASE_EVERY_N_HANDS
  /\ \E seat \in Seats : /\ last.pre.game.stacks[seat] = 4900
                         /\ hostState.handStartStacks[seat] = 3676

\* the next-hand timer called startHand
TimerStartedHand == last.op = "nextHandTimer" /\ hostState # last.pre

\* C34: a next-hand timer is pending only while the hand has ended and the
\* match is not over, never once the opponent has quit or the player has
\* left, never two at a time; when one fires it starts a hand only after
\* an ended hand of a match that is not over
C34_NextHandTimer ==
  /\ page.timers <= 1
  /\ page.timers = 1 => hostState.handResult.status = "ended" /\ ~hostState.gameOver
  /\ page.opponentQuit \/ page.left => page.timers = 0
  /\ TimerStartedHand => last.pre.handResult.status = "ended" /\ ~last.pre.gameOver

\* a player's or the opponent's action was applied
SoloActed == last.op \in {"dispatchAction", "opponentAct"} /\ last.action # NoAction

\* C35: no action of the player or of the opponent is applied between the
\* moment settleIfStreetComplete pulls the bets of a closed street into the
\* pot and the moment the next street is opened or the showdown resolved
C35_StreetClosureRunsToCompletion ==
  SoloActed => last.pre.streetTimers = << >>

\* the host's listener was handed the joiner's REQUEST_SNAPSHOT
SnapshotRequested ==
  /\ last.op = "onHostBroadcast"
  /\ last.payload.event = "SYNC" /\ last.payload.kind = "REQUEST_SNAPSHOT"
  /\ last.payload.sender = JoinerId

\* the joiner's listener was handed a HOST_STATE of the host
SnapshotDelivered ==
  /\ last.op = "onJoinerBroadcast"
  /\ last.payload.event = "HOST_STATE" /\ last.payload.sender = HostId

\* C36: a REQUEST_SNAPSHOT handed to the host leaves the host's state as it
\* was and publishes one HOST_STATE that carries it; a HOST_STATE handed to
\* a joiner replaces its mirror, whatever the joiner had missed, and with
\* nothing more on the way the mirror is the host's state
C36_SnapshotRequest ==
  /\ SnapshotRequested =>
       /\ hostState = last.pre
       /\ last.sent = <<broadcastFullState(last.pre)>>
  /\ SnapshotDelivered =>
       /\ joinerState = last.payload.state
       /\ toJoiner = << >> => joinerState = <<hostState>>

\* the request was served for a joiner whose mirror was stale after a lost
\* broadcast, in a hand that had ended
C36_Witness ==
  /\ SnapshotRequested
  /\ missed /\ joinerState # <<hostState>>
  /\ hostState.handResult.status = "ended"
  /\ toJoiner = <<broadcastFullState(hostState)>>

\* seven cards were scored
Scored == scored.score # << >>

\* C37: the score evaluate7 gives seven cards is the score of the best of
\* their 21 five-card hands, the one best5From7 picks
C37_SevenCardsAsBestFive ==
  Scored =>
    /\ scored.score = scored.best
    /\ \A I \in FiveOf(7) :
         compareScore(scored.score, evaluate7(Pick(HandOf(scored), I))) >= 0

\* three pairs were scored as two pair with the third pair's rank as kicker
C37_Witness ==
  /\ Scored
  /\ scored.score = <<2, 13, 11, 9>>

\* the values of the scored cards, and those of one suit
ScoredValues == {RANK_TO_VALUE(c.rank) : c \in {HandOf(scored)[i] : i \in 1..7}}
ScoredSuited(suit) ==
  {RANK_TO_VALUE(c.rank) : c \in {d \in {HandOf(scored)[i] : i \in 1..7} : d.suit = suit}}

WheelValues == {14, 2, 3, 4, 5}
SixHighValues == {2, 3, 4, 5, 6}

\* C38: the ace, 2, 3, 4 and 5 make a straight, or a straight flush when of
\* one suit, whose high card is the 5, below the six-high one; with the 6
\* as well the hand is six-high
C38_WheelIsFiveHigh ==
  Scored =>
    /\ WheelValues \subseteq ScoredValues => compareScore(scored.score, <<4, 5>>) >= 0
    /\ scored.score[1] = 4 /\ WheelValues \subseteq ScoredValues /\ 6 \notin ScoredValues =>
         scored.score = <<4, 5>> /\ compareScore(scored.score, <<4, 6>>) < 0
    /\ scored.score[1] = 4 /\ SixHighValues \subseteq ScoredValues /\ 7 \notin ScoredValues =>
         scored.score = <<4, 6>>
    /\ \A suit \in {"s", "h", "d", "c"} :
         /\ WheelValues \subseteq ScoredSuited(suit) /\ 6 \notin ScoredSuited(suit) =>
              scored.score = <<8, 5>> /\ compareScore(scored.score, <<8, 6>>) < 0
         /\ SixHighValues \subseteq ScoredSuited(suit) /\ 7 \notin ScoredSuited(suit) =>
              scored.score = <<8, 6>>

\* the ace to the five of mixed suits, with a pair among them, were scored
C38_Witness ==
  /\ Scored
  /\ WheelValues = ScoredValues
  /\ scored.score = <<4, 5>>

\* the chips on the table before the step
Committed(e) == e.game.pot + e.game.bets.top + e.game.bets.bottom

\* C39: an ended hand has an empty pot and no bets; the step that ends the
\* hand moves the pot and both bets to the stacks: to the seat that did not
\* fold, or to the seats at the showdown
C39_EndedHandIsPaidOut ==
  /\ hostState.handResult.status = "ended" =>
       /\ hostState.game.pot = 0
       /\ hostState.game.bets.top = 0 /\ hostState.game.bets.bottom = 0
  /\ Applies("FOLD") =>
       /\ Gain(last.pre, Other(last.seat)) = Committed(last.pre)
       /\ Gain(last.pre, last.seat) = 0
  /\ WentToShowdown =>
       Gain(ClosingState, "top") + Gain(ClosingState, "bottom") = Committed(ClosingState)

\* a seat folded to a bet after the flop: a pot and two unequal bets were
\* paid to the other seat
C39_Witness ==
  /\ Applies("FOLD")
  /\ last.pre.game.pot > 0
  /\ last.pre.game.bets[last.seat] < last.pre.game.bets[Other(last.seat)]
  /\ hostState.handResult.status = "ended" /\ hostState.game.pot = 0

\* C40: a BET_RAISE_TO the engine applies leaves the acting seat's bet above
\* its bet before the action and above the other seat's bet
C40_RaiseStrictlyIncreases ==
  Applies("BET_RAISE_TO") =>
    /\ hostState.game.bets[last.seat] > last.pre.game.bets[last.seat]
    /\ hostState.game.bets[last.seat] > hostState.game.bets[Other(last.seat)]

====
